---- MODULE Spec2Model ----
(***************************************************************************)
(* The transaction execution adapter of aptos-vm (aptos_vm.rs): the        *)
(* per-transaction protocol prologue -> payload -> epilogue / failure      *)
(* cleanup, the system write-set pipeline, and the block loop.  The Move   *)
(* VM, the on-chain prologue/epilogue functions and the storage are black  *)
(* boxes: every call into them draws its outcome from a small set.         *)
(***************************************************************************)
EXTENDS Integers, Sequences, FiniteSets, TLC

VARIABLES
    state_view,     \* the state view a call is given: state key -> value
    data_cache,     \* StateViewCache of execute_block_impl
    transactions,   \* the block's transactions consumed so far
    result,         \* execute_block_impl's result vector
    should_restart, \* execute_block_impl's flag
    block_ret,      \* what execute_block returned
    entry,          \* the entry point in progress
    pc,             \* position inside the call in progress
    txn,            \* the transaction in progress
    session,        \* the session in use
    gas_meter,      \* the AptosGasMeter of the attempt
    exec_result,    \* `result` of execute_user_transaction (line 500)
    gas_usage,      \* `gas_usage` of execute_user_transaction (line 518)
    ret,            \* what the per-transaction call returned
    hist,           \* history of the call in progress (not program state)
    EXECUTION_CONCURRENCY_LEVEL,  \* static OnceCell<usize> (line 68)
    NUM_PROOF_READING_THREADS,    \* static OnceCell<usize> (line 69)
    callers,        \* the threads calling the setters: where each one is
    setting_calls,  \* history of the calls on the two settings (not program state)
    SYSTEM_TRANSACTIONS_EXECUTED,  \* the process-wide counter (lines 647, 694)
    on_chain_block_prologue,  \* what block_prologue does on the state view, by block
    prologue_runs,  \* the executions of a block-metadata transaction so far
    data_range,     \* what the last constructor of CompleteDataRange<T> returned
    range_call,     \* that call and its arguments (history, not program state)
    strategy_block, \* the transactions of the execute_block under way
    strategy_pc,    \* where that execute_block is
    versioned,      \* the parallel strategy's record of each transaction
    strategy_ret,   \* what that execute_block returned
    caches,         \* CacheState.caches: the two halves, sets of hashes
    current_idx,    \* CacheState.current_idx
    filter_pc,      \* where the call of filter_and_update is
    filter_items,   \* the items of that call
    chunks,         \* its chunks: for each the next item and the `ret` of the closure
    was_in_cache,   \* per item, if a half held it when it was processed (history)
    cache_at_call,  \* the hashes in the halves when filter_and_update was called (history)
    filter_ret,     \* what filter_and_update returned
    db,             \* TransactionByAccountSchema: its entries in key order
    iter_call,      \* the arguments of get_account_transaction_version_iter (history)
    iter,           \* what that call returned: Ok(AccountTransactionVersionIter) or Err
    last_next,      \* the last call of next: the entry read, the fields before, the result
    yielded,        \* the items the iterator gave so far (history)
    num_proofs_to_read,\* AsyncProofFetcher.num_proofs_to_read
    channel,        \* the messages sent on status_sender and not yet received
    spawned,        \* the proof reads spawned on the pool and not yet run
    fetcher_pc,     \* where the caller of the fetcher is
    finish_local,   \* finish_and_read_proofs: the loop's bound, its count, `proofs`
    proof_cache,    \* what finish_and_read_proofs returned
    requested,      \* the reads asked for since the last finish_and_read_proofs (history)
    configmap_pc,   \* where create_management_configmap is
    attempts,       \* its calls of create_namespace: the API's answer and the result (history)
    pool,           \* the rayon pool of the AsyncProofFetcher once it is created: its num_threads
    threads_at_new, \* what get_num_proof_reading_threads returned when it was created (history)
    running         \* the proof reads a thread of the pool is working on

\* the variables of the execution of transactions and blocks
vm_vars == <<state_view, data_cache, transactions, result, should_restart, block_ret,
             entry, pc, txn, session, gas_meter, exec_result, gas_usage, ret, hist>>

\* the variables of the process-wide settings
settings_vars == <<EXECUTION_CONCURRENCY_LEVEL, NUM_PROOF_READING_THREADS, callers,
                   setting_calls>>

\* the variables of the repeated execution of a block-metadata transaction
prologue_vars == <<SYSTEM_TRANSACTIONS_EXECUTED, on_chain_block_prologue, prologue_runs>>

\* the variables of the constructors of CompleteDataRange
range_vars == <<data_range, range_call>>

\* the variables of execute_block's choice between its two strategies
strategy_vars == <<strategy_block, strategy_pc, versioned, strategy_ret>>

\* the variables of the ConcurrentTxnCache
cache_vars == <<caches, current_idx, filter_pc, filter_items, chunks, was_in_cache,
                cache_at_call, filter_ret>>

\* the variables of the AccountTransactionVersionIter
iter_vars == <<db, iter_call, iter, last_next, yielded>>

\* the variables of the AsyncProofFetcher
fetcher_vars == <<num_proofs_to_read, channel, spawned, fetcher_pc, finish_local,
                  proof_cache, requested>>

\* the variables of create_management_configmap
namespace_vars == <<configmap_pc, attempts>>

\* the variables of the pool of the AsyncProofFetcher
pool_vars == <<pool, threads_at_new, running>>

\* what the execution of transactions and blocks leaves alone
outside_vars == <<settings_vars, prologue_vars, range_vars, strategy_vars, cache_vars,
                  iter_vars, fetcher_vars, namespace_vars, pool_vars>>

\* what the calls on the settings leave alone
outside_settings == <<vm_vars, prologue_vars, range_vars, strategy_vars, cache_vars,
                      iter_vars, fetcher_vars, namespace_vars, pool_vars>>

\* what the repeated execution of a block-metadata transaction leaves alone
outside_prologue == <<vm_vars, settings_vars, range_vars, strategy_vars, cache_vars,
                      iter_vars, fetcher_vars, namespace_vars, pool_vars>>

\* what the constructors of CompleteDataRange leave alone
outside_range == <<vm_vars, settings_vars, prologue_vars, strategy_vars, cache_vars,
                   iter_vars, fetcher_vars, namespace_vars, pool_vars>>

\* what execute_block under either strategy leaves alone
outside_strategy == <<vm_vars, settings_vars, prologue_vars, range_vars, cache_vars,
                      iter_vars, fetcher_vars, namespace_vars, pool_vars>>

\* what the calls on the ConcurrentTxnCache leave alone
outside_cache == <<vm_vars, settings_vars, prologue_vars, range_vars, strategy_vars,
                   iter_vars, fetcher_vars, namespace_vars, pool_vars>>

\* what the AccountTransactionVersionIter leaves alone
outside_iter == <<vm_vars, settings_vars, prologue_vars, range_vars, strategy_vars,
                  cache_vars, fetcher_vars, namespace_vars, pool_vars>>

\* what the AsyncProofFetcher leaves alone
outside_fetcher == <<vm_vars, settings_vars, prologue_vars, range_vars, strategy_vars,
                     cache_vars, iter_vars, namespace_vars, pool_vars>>

\* what create_management_configmap leaves alone
outside_namespace == <<vm_vars, settings_vars, prologue_vars, range_vars, strategy_vars,
                       cache_vars, iter_vars, fetcher_vars, pool_vars>>

\* what neither the AsyncProofFetcher nor its pool touches
outside_pool_and_fetcher == <<vm_vars, settings_vars, prologue_vars, range_vars,
                              strategy_vars, cache_vars, iter_vars, namespace_vars>>

\* what the pool of the AsyncProofFetcher leaves alone
outside_pool == <<vm_vars, settings_vars, prologue_vars, range_vars, strategy_vars,
                  cache_vars, iter_vars, fetcher_vars, namespace_vars>>

vars == <<vm_vars, settings_vars, prologue_vars, range_vars, strategy_vars, cache_vars,
          iter_vars, fetcher_vars, namespace_vars, pool_vars>>

block_vars == <<data_cache, transactions, result, should_restart, block_ret>>

(***************************************************************************)
(* Bounds                                                                  *)
(***************************************************************************)
MaxGas == 2        \* largest max_gas_amount of a transaction
MaxCharge == 1     \* largest single charge the VM issues while executing
MaxModules == 2    \* largest module bundle
MaxBlock == 2      \* longest block
InitBalance == 3   \* the sender's balance in the initial state view
TxnSize == 1       \* transaction_size() of every transaction
MaxThreads == 2    \* threads that call the setters of the process-wide settings
MaxSetCalls == 3   \* calls of the two setters, over all threads
MaxLevel == 3      \* largest concurrency level asked for
NumCpus == 2       \* num_cpus::get()
MaxRound == 2      \* largest round of a block's metadata
MaxRuns == 2       \* executions of one block-metadata transaction
IntMax == 7        \* T::max_value() of the integer type of a CompleteDataRange<T>
MaxElement == 3    \* the elements given to the ConcurrentTxnCache are 1..MaxElement
MaxItems == 3      \* longest batch given to filter_and_update
ChunkSize == 2     \* chunk_size of filter_and_update (100 in the source)
CacheSize == 1     \* cache_size given to ConcurrentTxnCache::new
U64Max == 3        \* u64::MAX of the sequence numbers given to the iterator
MaxSeqNum == 2     \* largest sequence number in TransactionByAccountSchema
MaxVersion == 2    \* largest version in TransactionByAccountSchema
MaxReads == 2      \* calls of read_proof_async between two finish_and_read_proofs
MaxAttempts == 4   \* calls of create_namespace the retry policy makes at most

DefaultConcurrencyLevel == 1
DefaultProofReadingThreads == 32
MaxProofReadingThreads == 256
PoolThreads == 256

\* Inside execute_block the outcomes of the calls into the VM are drawn from
\* smaller sets than for a single call: the block multiplies them
InBlock == entry = "execute_block"

Among(single, block) == IF InBlock THEN block ELSE single

(***************************************************************************)
(* State keys, write sets, events                                          *)
(***************************************************************************)
ModNames == <<"modA", "modB", "modC", "modD">>

ModKey(i) == ModNames[i]

KeyOrder == <<"acct", "cfg", "res">> \o SubSeq(ModNames, 1, MaxModules + 1)

Keys == {KeyOrder[i] : i \in 1..Len(KeyOrder)}

Range(s) == {s[i] : i \in 1..Len(s)}

W(k, v) == [key |-> k, value |-> v]

\* the keys of a write set (a sequence of writes)
WsKeys(ws) == {ws[i].key : i \in 1..Len(ws)}

\* the writes staged in a session are a set of W(k, v), one per key
Put(writes, k, v) == {w \in writes : w.key # k} \cup {W(k, v)}

StagedKeys(writes) == {w.key : w \in writes}

\* what a session reads: its own writes over the resolver's state
View(storage, writes) ==
    [k \in Keys |-> IF k \in StagedKeys(writes)
                    THEN (CHOOSE w \in writes : w.key = k).value
                    ELSE storage[k]]

\* session.finish() + into_change_set: the writes in state-key order
FinishWrites(writes) ==
    LET ks == SelectSeq(KeyOrder, LAMBDA k : k \in StagedKeys(writes))
    IN  [i \in 1..Len(ks) |-> CHOOSE w \in writes : w.key = ks[i]]

RECURSIVE ApplyWriteSet(_, _)
ApplyWriteSet(storage, ws) ==
    IF ws = <<>> THEN storage
    ELSE ApplyWriteSet([storage EXCEPT ![Head(ws).key] = Head(ws).value], Tail(ws))

RECURSIVE SumSeq(_)
SumSeq(s) == IF s = <<>> THEN 0 ELSE Head(s) + SumSeq(Tail(s))

Min(a, b) == IF a < b THEN a ELSE b

(***************************************************************************)
(* VMStatus, its classification, transaction outputs                       *)
(***************************************************************************)
KeepCodes == {"ABORTED", "OUT_OF_GAS", "VERIFICATION_ERROR", "DUPLICATE_MODULE_NAME",
              "CODE_DESERIALIZATION_ERROR", "TYPE_MISMATCH", "LINKER_ERROR"}

DiscardCodes == {"SIGNERS_CONTAIN_DUPLICATES", "INVALID_SIGNATURE",
                 "SEQUENCE_NUMBER_TOO_OLD", "MAX_GAS_UNITS_BELOW_MIN_TRANSACTION_GAS_UNITS",
                 "INVALID_WRITE_SET", "UNREACHABLE", "STORAGE_ERROR", "VM_STARTUP_FAILURE",
                 "UNEXPECTED_ERROR_FROM_KNOWN_MOVE_FUNCTION",
                 "UNKNOWN_INVARIANT_VIOLATION_ERROR", "UNKNOWN_STATUS"}

\* TransactionStatus::from(VMStatus): the class and the status recorded
TransactionStatus_from(code) ==
    IF code = "EXECUTED" THEN [class |-> "Keep", code |-> "Success"]
    ELSE IF code = "ABORTED" THEN [class |-> "Keep", code |-> "MoveAbort"]
    ELSE IF code = "OUT_OF_GAS" THEN [class |-> "Keep", code |-> "OutOfGas"]
    ELSE IF code \in KeepCodes THEN [class |-> "Keep", code |-> "MiscellaneousError"]
    ELSE [class |-> "Discard", code |-> code]

is_discarded(status) == status.class = "Discard"

TransactionOutput_new(write_set, events, gas_used, status) ==
    [write_set |-> write_set, events |-> events, gas_used |-> gas_used, status |-> status]

discard_error_output(code) ==
    TransactionOutput_new(<<>>, <<>>, 0, [class |-> "Discard", code |-> code])

\* (VMStatus, TransactionOutputExt)
discard_error_vm_status(err) ==
    [vm_status |-> err, output |-> discard_error_output(err)]

Ok(v) == [ok |-> TRUE, val |-> v]
Err(e) == [ok |-> FALSE, err |-> e]

NoOutput == [none |-> TRUE]

(***************************************************************************)
(* Sessions and the gas meter                                              *)
(***************************************************************************)
NoRequest == [none |-> TRUE]

NoSession == [open |-> FALSE]

\* AptosVMImpl::new_session: nothing staged, no publish request
new_session(storage) ==
    [open |-> TRUE, storage |-> storage, writes |-> {}, events |-> <<>>,
     publish_request |-> NoRequest]

NoMeter == [created |-> FALSE]

AptosGasMeter_new(max_gas_amount) == [created |-> TRUE, balance |-> max_gas_amount]

\* AptosGasMeter::charge: a charge above the balance is rejected and empties it
Charge(balance, amount) ==
    IF balance >= amount THEN [ok |-> TRUE, balance |-> balance - amount]
    ELSE [ok |-> FALSE, balance |-> 0]

\* the intrinsic cost of a transaction of `size` bytes
IntrinsicGas(size) == size

\* get_transaction_output: the finished session as a Keep output
get_transaction_output(sess, gas_left, max_gas_amount, status, finish_ok) ==
    IF ~finish_ok THEN Err("UNKNOWN_INVARIANT_VIOLATION_ERROR")
    ELSE Ok(TransactionOutput_new(FinishWrites(sess.writes), sess.events,
                                   max_gas_amount - gas_left,
                                   [class |-> "Keep", code |-> status]))

\* the on-chain epilogue: debits the gas used from the sender's account;
\* it aborts when the account cannot pay or when `aborts` says so
RunEpilogue(sess, gas_remaining, max_gas_amount, aborts, abort_code) ==
    LET used == max_gas_amount - gas_remaining
        bal  == View(sess.storage, sess.writes)["acct"]
    IN  IF aborts \/ bal < used THEN Err(abort_code)
        ELSE Ok([sess EXCEPT !.writes = Put(@, "acct", bal - used)])

(***************************************************************************)
(* The attempt in progress: the session, the meter's balance and what has  *)
(* been done so far (steps, the amounts asked of the meter)                *)
(***************************************************************************)
Step(op, a, b) == [op |-> op, a |-> a, b |-> b]

Attempt(sess, bal, steps, log, bundle) ==
    [session |-> sess, balance |-> bal, steps |-> steps, gas_log |-> log,
     bundle |-> bundle]

\* gas_meter.charge(amount) inside an attempt
ChargeIn(m, amount) ==
    LET c == Charge(m.balance, amount)
        n == [m EXCEPT !.balance = c.balance, !.gas_log = Append(@, amount)]
    IN  IF c.ok THEN [ok |-> TRUE, m |-> n] ELSE [ok |-> FALSE, err |-> "OUT_OF_GAS", m |-> n]

Fail(m, code) == [ok |-> FALSE, err |-> code, m |-> m]

Pass(m) == [ok |-> TRUE, m |-> m]

Log(m, op, a, b) == [m EXCEPT !.steps = Append(@, Step(op, a, b))]

(***************************************************************************)
(* Module bundles.  A module blob is one of                                *)
(*   "bad_blob"  it does not deserialize                                   *)
(*   "plain"     it has no init_module                                     *)
(*   "bad_init"  init_module loads but fails verify_module_init_function   *)
(*   "init"      init_module loads and verifies                            *)
(* and the i-th module of a bundle is named ModNames[i].                   *)
(***************************************************************************)
Blobs == {"bad_blob", "plain", "bad_init", "init"}

AllBundles == UNION {[1..n -> Blobs] : n \in 1..MaxModules}

Bundles == Among(AllBundles, {<<"plain">>, <<"init">>})

CompiledModule_deserialize_ok(blob) == blob # "bad_blob"

\* what the VM does in one init_module run: the charge and how it ends
InitOutcomes ==
    [charge : Among(0..MaxCharge, {0}), result : {"EXECUTED", "ABORTED"},
     registers : Among(BOOLEAN, {FALSE})]

\* verify_module_bundle: every blob deserializes and names no existing module
RECURSIVE verify_module_bundle(_, _, _)
verify_module_bundle(m, bundle, i) ==
    IF i > Len(bundle) THEN Pass(m)
    ELSE IF ~CompiledModule_deserialize_ok(bundle[i])
         THEN Fail(m, "CODE_DESERIALIZATION_ERROR")
    ELSE IF View(m.session.storage, m.session.writes)[ModKey(i)] # 0
         THEN Fail(m, "DUPLICATE_MODULE_NAME")
    ELSE verify_module_bundle(m, bundle, i + 1)

\* deserialize_module_bundle
deserialize_module_bundle(m, bundle) ==
    IF \E i \in 1..Len(bundle) : ~CompiledModule_deserialize_ok(bundle[i])
    THEN Fail(m, "CODE_DESERIALIZATION_ERROR")
    ELSE Pass(m)

\* session.publish_module_bundle[_relax_compatibility]: the VM's charge, then
\* either an error or the staged code of every module of the bundle
RECURSIVE StageModules(_, _, _)
StageModules(writes, bundle, i) ==
    IF i > Len(bundle) THEN writes
    ELSE StageModules(Put(writes, ModKey(i), 1), bundle, i + 1)

publish_module_bundle(m, bundle, destination, how, o) ==
    LET c == ChargeIn(Log(m, how, destination, ""), o.charge)
    IN  IF ~c.ok THEN c
        ELSE IF o.result # "EXECUTED" THEN Fail(c.m, o.result)
        ELSE Pass([c.m EXCEPT !.session.writes = StageModules(@, bundle, 1)])

\* session.execute_function_bypass_visibility(init_module) with one signer
execute_init_module(m, i, signer, o) ==
    LET c == ChargeIn(Log(m, "init_module", ModKey(i), signer), o.charge)
        w == [c.m EXCEPT !.session.writes = Put(@, "res", 1),
                         !.session.events = Append(@, "user"),
                         !.session.publish_request =
                             IF o.registers THEN [none |-> FALSE] ELSE @]
    IN  IF ~c.ok THEN c
        ELSE IF o.result # "EXECUTED" THEN Fail(w, o.result)
        ELSE Pass(w)

\* execute_module_initialization without verify_module_init_function: an
\* init_module that would not verify is passed over
RECURSIVE initialize_unverified(_, _, _, _)
initialize_unverified(m, modules, signer, i) ==
    IF i > Len(modules) THEN {Pass(m)}
    ELSE IF modules[i] = "init"
         THEN UNION {LET r == execute_init_module(m, i, signer, o)
                     IN  IF r.ok
                         THEN initialize_unverified(r.m, modules, signer, i + 1)
                         ELSE {r}
                     : o \in InitOutcomes}
    ELSE initialize_unverified(m, modules, signer, i + 1)

\* an execute_module_initialization that runs the initializers of the later
\* modules before it reports an init_module that does not verify
RECURSIVE initialize_before_failing(_, _, _, _)
initialize_before_failing(m, modules, signer, i) ==
    IF i > Len(modules) THEN {Pass(m)}
    ELSE IF modules[i] = "plain"
         THEN initialize_before_failing(m, modules, signer, i + 1)
    ELSE IF modules[i] = "init"
         THEN UNION {LET r == execute_init_module(m, i, signer, o)
                     IN  IF r.ok
                         THEN initialize_before_failing(r.m, modules, signer, i + 1)
                         ELSE {r}
                     : o \in InitOutcomes}
    ELSE {Fail(r.m, "VERIFICATION_ERROR")
          : r \in initialize_before_failing(m, modules, signer, i + 1)}

\* execute_module_initialization: the initializers in bundle order; the set of
\* ways it can end, one for every way the init_module runs can end
RECURSIVE execute_module_initialization(_, _, _, _)
execute_module_initialization(m, modules, signer, i) ==
    IF i > Len(modules) THEN {Pass(m)}
    ELSE IF modules[i] = "plain"
         THEN execute_module_initialization(m, modules, signer, i + 1)
    ELSE IF modules[i] = "init"
         THEN UNION {LET r == execute_init_module(m, i, signer, o)
                     IN  IF r.ok
                         THEN execute_module_initialization(r.m, modules, signer, i + 1)
                         ELSE {r}
                     : o \in InitOutcomes}
    ELSE {Fail(m, "VERIFICATION_ERROR")}

\* what the VM does in publish_module_bundle
PublishOutcomes ==
    [charge : Among(0..MaxCharge, {0}), result : {"EXECUTED", "VERIFICATION_ERROR"}]

\* execute_modules up to, not including, success_transaction_cleanup
execute_modules_body(m, bundle, sender) ==
    LET c == ChargeIn([m EXCEPT !.bundle = bundle], IntrinsicGas(TxnSize))
        v == verify_module_bundle(c.m, bundle, 1)
    IN  IF ~c.ok THEN {c}
        ELSE IF ~v.ok THEN {v}
        ELSE UNION {LET p == publish_module_bundle(v.m, bundle, sender, "publish", po)
                        d == deserialize_module_bundle(p.m, bundle)
                    IN  IF ~p.ok THEN {p}
                        ELSE IF ~d.ok THEN {d}
                        ELSE execute_module_initialization(d.m, bundle, sender, 1)
                    : po \in PublishOutcomes}

(***************************************************************************)
(* Scripts and entry functions                                             *)
(***************************************************************************)
BundleNames(bundle) == {ModNames[i] : i \in 1..Len(bundle)}

\* PublishRequest { destination, bundle, expected_modules, check_compat }
PublishRequests ==
    UNION {[destination : {"sender", "other"}, bundle : {b},
            expected_modules : {BundleNames(b), {}}, check_compat : BOOLEAN]
           : b \in AllBundles}

\* a request registered with the NativeCodeContext; what it holds is read
\* when extract_publish_request takes it
PendingRequest == [none |-> FALSE]

\* what user code may stage: a resource, the sender's funds spent, funds
\* received
PayloadWrites ==
    {{}, {W("res", 1)}, {W("acct", 0), W("res", 1)}, {W("acct", InitBalance)}}

\* what the VM does with a script or an entry function
ScriptOutcomes ==
    [load_ok : Among(BOOLEAN, {TRUE}), args_ok : Among(BOOLEAN, {TRUE}),
     charge : Among(0..MaxCharge, {MaxCharge}),
     writes : Among(PayloadWrites, {{W("res", 1)}}),
     events : Among({<<>>, <<"user">>}, {<<"user">>}),
     request : Among({NoRequest, PendingRequest}, {NoRequest}),
     result : {"EXECUTED", "ABORTED", "UNKNOWN_INVARIANT_VIOLATION_ERROR"}]

Stage(sess, o) ==
    [sess EXCEPT !.writes = {w \in @ : w.key \notin StagedKeys(o.writes)} \cup o.writes,
                 !.events = @ \o o.events,
                 !.publish_request = o.request]

\* session.execute_script / execute_entry_function
execute_payload_function(m, how, o) ==
    LET c == ChargeIn(Log(m, how, "", ""), o.charge)
        w == [c.m EXCEPT !.session = Stage(@, o)]
    IN  IF ~c.ok THEN [c EXCEPT !.m = w]
        ELSE IF o.result # "EXECUTED" THEN Fail(w, o.result)
        ELSE Pass(w)

\* a validation that accepts every bundle holding the expected names
validate_publish_request_holding(m, modules, expected_names) ==
    IF ~(expected_names \subseteq BundleNames(modules))
    THEN Fail(m, "VERIFICATION_ERROR")
    ELSE Pass(m)

\* validate_publish_request
validate_publish_request(m, modules, expected_names) ==
    IF BundleNames(modules) # expected_names
    THEN Fail(m, "VERIFICATION_ERROR")
    ELSE Pass(m)

\* resolve_pending_code_publish once extract_publish_request returned Some(req)
resolve_publish_request(m, req) ==
    LET d == deserialize_module_bundle([m EXCEPT !.bundle = req.bundle], req.bundle)
        v == validate_publish_request(d.m, req.bundle, req.expected_modules)
    IN  IF ~d.ok THEN {d}
        ELSE IF ~v.ok THEN {v}
        ELSE UNION {LET p == publish_module_bundle(
                                 v.m, req.bundle, req.destination,
                                 IF req.check_compat THEN "publish" ELSE "publish_relax",
                                 po)
                    IN  IF ~p.ok THEN {p}
                        ELSE execute_module_initialization(
                                 p.m, req.bundle, req.destination, 1)
                    : po \in PublishOutcomes}

\* resolve_pending_code_publish
resolve_pending_code_publish(m) ==
    IF m.session.publish_request = NoRequest THEN {Pass(m)}
    ELSE UNION {resolve_publish_request(
                    Log([m EXCEPT !.session.publish_request = NoRequest],
                        "extract_publish_request", "", ""), req)
                : req \in PublishRequests}

\* execute_script_or_script_function up to, not including,
\* resolve_pending_code_publish
execute_script_or_script_function_body(m, payload) ==
    LET c == ChargeIn(m, IntrinsicGas(TxnSize))
    IN  IF ~c.ok THEN {c}
        ELSE IF payload \in {"Script", "ScriptFunction"}
             THEN {IF ~o.load_ok THEN Fail(c.m, "LINKER_ERROR")
                   ELSE IF ~o.args_ok THEN Fail(c.m, "TYPE_MISMATCH")
                   ELSE execute_payload_function(
                            c.m, IF payload = "Script" THEN "execute_script"
                                 ELSE "execute_entry_function", o)
                   : o \in ScriptOutcomes}
        ELSE {Fail(c.m, "UNREACHABLE")}

(***************************************************************************)
(* Epilogues and cleanup                                                   *)
(***************************************************************************)
\* how an epilogue and the conversion of its session end
EpilogueOutcomes ==
    [aborts : BOOLEAN,
     abort_code : Among({"ABORTED", "UNEXPECTED_ERROR_FROM_KNOWN_MOVE_FUNCTION"},
                        {"UNEXPECTED_ERROR_FROM_KNOWN_MOVE_FUNCTION"}),
     finish_ok : Among(BOOLEAN, {TRUE})]

\* a success cleanup whose epilogue runs in a fresh session on the session's
\* storage, as the failure cleanup's does
success_cleanup_in_fresh_session(sess, balance, max_gas_amount, eo) ==
    LET e == RunEpilogue(new_session(sess.storage), balance, max_gas_amount,
                         eo.aborts, eo.abort_code)
    IN  IF ~e.ok THEN e
        ELSE LET out == get_transaction_output(e.val, balance, max_gas_amount,
                                               "Success", eo.finish_ok)
             IN  IF ~out.ok THEN out
                 ELSE Ok([vm_status |-> "EXECUTED", output |-> out.val])

\* success_transaction_cleanup
success_transaction_cleanup(sess, balance, max_gas_amount, eo) ==
    LET e == RunEpilogue(sess, balance, max_gas_amount, eo.aborts, eo.abort_code)
    IN  IF ~e.ok THEN e
        ELSE LET out == get_transaction_output(e.val, balance, max_gas_amount,
                                               "Success", eo.finish_ok)
             IN  IF ~out.ok THEN out
                 ELSE Ok([vm_status |-> "EXECUTED", output |-> out.val])

\* a failure cleanup that bills from a full meter instead of the attempt's
cleanup_with_full_meter(error_code, balance, max_gas_amount, storage, eo) ==
    LET fresh  == new_session(storage)
        status == TransactionStatus_from(error_code)
    IN  IF status.class = "Keep"
        THEN LET e == RunEpilogue(fresh, max_gas_amount, max_gas_amount,
                                  eo.aborts, eo.abort_code)
             IN  IF ~e.ok THEN discard_error_vm_status(e.err)
                 ELSE LET out == get_transaction_output(e.val, max_gas_amount,
                                                        max_gas_amount, status.code,
                                                        eo.finish_ok)
                      IN  [vm_status |-> error_code,
                           output |-> IF out.ok THEN out.val
                                      ELSE discard_error_vm_status(out.err).output]
        ELSE [vm_status |-> status.code, output |-> discard_error_output(status.code)]

\* a failure cleanup that, when its epilogue fails, reports the error it was
\* called with instead of the epilogue's
cleanup_reporting_first_error(error_code, balance, max_gas_amount, storage, eo) ==
    LET fresh  == new_session(storage)
        status == TransactionStatus_from(error_code)
    IN  IF status.class = "Keep"
        THEN LET e == RunEpilogue(fresh, balance, max_gas_amount, eo.aborts, eo.abort_code)
             IN  IF ~e.ok THEN discard_error_vm_status(error_code)
                 ELSE LET out == get_transaction_output(e.val, balance, max_gas_amount,
                                                        status.code, eo.finish_ok)
                      IN  [vm_status |-> error_code,
                           output |-> IF out.ok THEN out.val
                                      ELSE discard_error_vm_status(out.err).output]
        ELSE [vm_status |-> status.code, output |-> discard_error_output(status.code)]

\* a failure cleanup whose output reports the gas of a meter charged once more
\* after the epilogue ran
cleanup_charging_after_epilogue(error_code, balance, max_gas_amount, storage, eo) ==
    LET fresh  == new_session(storage)
        status == TransactionStatus_from(error_code)
        later  == IF balance > 0 THEN balance - 1 ELSE balance
    IN  IF status.class = "Keep"
        THEN LET e == RunEpilogue(fresh, balance, max_gas_amount, eo.aborts, eo.abort_code)
             IN  IF ~e.ok THEN discard_error_vm_status(e.err)
                 ELSE LET out == get_transaction_output(e.val, later, max_gas_amount,
                                                        status.code, eo.finish_ok)
                      IN  [vm_status |-> error_code,
                           output |-> IF out.ok THEN out.val
                                      ELSE discard_error_vm_status(out.err).output]
        ELSE [vm_status |-> status.code, output |-> discard_error_output(status.code)]

\* failed_transaction_cleanup_and_keep_vm_status
failed_transaction_cleanup_and_keep_vm_status(error_code, balance, max_gas_amount, storage, eo) ==
    LET fresh  == new_session(storage)
        status == TransactionStatus_from(error_code)
    IN  IF status.class = "Keep"
        THEN LET e == RunEpilogue(fresh, balance, max_gas_amount, eo.aborts, eo.abort_code)
             IN  IF ~e.ok THEN discard_error_vm_status(e.err)
                 ELSE LET out == get_transaction_output(e.val, balance, max_gas_amount,
                                                        status.code, eo.finish_ok)
                      IN  [vm_status |-> error_code,
                           output |-> IF out.ok THEN out.val
                                      ELSE discard_error_vm_status(out.err).output]
        ELSE [vm_status |-> status.code, output |-> discard_error_output(status.code)]

(***************************************************************************)
(* Prologue                                                                *)
(***************************************************************************)
\* how check_gas and the on-chain prologue end, and get_gas_parameters
PrologueOutcomes ==
    [gas_check_ok : Among(BOOLEAN, {TRUE}), prologue_ok : BOOLEAN,
     gas_params_ok : Among(BOOLEAN, {TRUE})]

\* check_transaction_format
check_transaction_format(t) ==
    IF t.dup_signers THEN Err("SIGNERS_CONTAIN_DUPLICATES") ELSE Ok(<<>>)

\* a run_prologue_with_payload that goes on to the prologue after a failed
\* gas check
run_prologue_after_failed_check(payload, o) ==
    LET gas == IF o.gas_check_ok THEN Ok(<<>>)
               ELSE Err("MAX_GAS_UNITS_BELOW_MIN_TRANSACTION_GAS_UNITS")
        pro == IF o.prologue_ok THEN Ok(<<>>) ELSE Err("SEQUENCE_NUMBER_TOO_OLD")
        which == IF payload = "ModuleBundle" THEN "run_module_prologue"
                 ELSE "run_script_prologue"
    IN  IF payload = "WriteSet"
        THEN [calls |-> <<"run_writeset_prologue">>, res |-> pro]
        ELSE [calls |-> <<"check_gas", which>>, res |-> IF ~gas.ok THEN gas ELSE pro]

\* run_prologue_with_payload: the calls made, in order, and the result
run_prologue_with_payload(payload, o) ==
    LET gas == IF o.gas_check_ok THEN Ok(<<>>)
               ELSE Err("MAX_GAS_UNITS_BELOW_MIN_TRANSACTION_GAS_UNITS")
        pro == IF o.prologue_ok THEN Ok(<<>>) ELSE Err("SEQUENCE_NUMBER_TOO_OLD")
        which == IF payload = "ModuleBundle" THEN "run_module_prologue"
                 ELSE "run_script_prologue"
    IN  IF payload = "WriteSet"
        THEN [calls |-> <<"run_writeset_prologue">>, res |-> pro]
        ELSE IF ~gas.ok THEN [calls |-> <<"check_gas">>, res |-> gas]
        ELSE [calls |-> <<"check_gas", which>>, res |-> pro]

\* VMAdapter::run_prologue
run_prologue(t, o) == run_prologue_with_payload(t.payload, o)

\* validate_signature_checked_transaction (allow_too_new = false)
validate_transaction_checks(t, o) ==
    LET f == check_transaction_format(t)
    IN  IF ~f.ok THEN [calls |-> <<>>, res |-> f]
        ELSE run_prologue(t, o)

\* a validation of the simulated transaction that leaves the format check out
validate_simulated_without_format(t, o) == run_prologue_with_payload(t.payload, o)

\* AptosSimulationVM::validate_simulated_transaction
validate_simulated_transaction(t, o) ==
    IF ~check_transaction_format(t).ok
    THEN [calls |-> <<>>, res |-> check_transaction_format(t)]
    ELSE run_prologue_with_payload(t.payload, o)

(***************************************************************************)
(* The system write-set pipeline                                           *)
(***************************************************************************)
Returned(r) == [tag |-> "return", val |-> r]

\* the change sets a Direct payload may carry
DirectChangeSets ==
    [write_set : {FinishWrites(ws) : ws \in Among(SUBSET {W("acct", 1), W("res", 1)},
                                                  {{W("res", 1)}})},
     events : Among({<<>>, <<"new_block">>, <<"new_epoch">>, <<"new_block", "new_epoch">>},
                    {<<>>, <<"new_block", "new_epoch">>})]

\* WriteSetPayload: Direct(change_set) or Script; `reconfig` is
\* should_trigger_reconfiguration_by_default()
WriteSetPayloads ==
    [kind : {"Direct"}, change_set : DirectChangeSets, reconfig : BOOLEAN]
    \cup [kind : {"Script"}, reconfig : Among(BOOLEAN, {FALSE})]

\* what the VM does with a write-set script
WriteSetScriptOutcomes ==
    [load_ok : BOOLEAN, args_ok : Among(BOOLEAN, {TRUE}),
     writes : Among(PayloadWrites, {{W("res", 1)}}),
     events : Among({<<>>, <<"new_block", "new_epoch">>}, {<<>>}),
     result : {"EXECUTED", "ABORTED"}, change_set_ok : Among(BOOLEAN, {TRUE})]

\* an execute_writeset whose failed script leaves its writes in the output
execute_writeset_keeping_writes(storage, writeset_payload) ==
    IF writeset_payload.kind = "Direct"
    THEN {[tag |-> "change_set", change_set |-> writeset_payload.change_set]}
    ELSE {IF ~o.load_ok THEN Returned(Err("LINKER_ERROR"))
          ELSE IF ~o.args_ok THEN Returned(Err("TYPE_MISMATCH"))
          ELSE IF o.result # "EXECUTED"
               THEN Returned(Ok([vm_status |-> o.result,
                                 output |-> TransactionOutput_new(
                                                FinishWrites(o.writes), o.events, 0,
                                                [class |-> "Discard",
                                                 code |-> "INVALID_WRITE_SET"])]))
          ELSE IF ~o.change_set_ok
               THEN Returned(Err("UNKNOWN_INVARIANT_VIOLATION_ERROR"))
          ELSE [tag |-> "change_set",
                change_set |-> [write_set |-> FinishWrites(o.writes), events |-> o.events]]
          : o \in WriteSetScriptOutcomes}

\* execute_writeset: a change set, or what the caller must return at once
execute_writeset(storage, writeset_payload) ==
    IF writeset_payload.kind = "Direct"
    THEN {[tag |-> "change_set", change_set |-> writeset_payload.change_set]}
    ELSE {IF ~o.load_ok THEN Returned(Err("LINKER_ERROR"))
          ELSE IF ~o.args_ok THEN Returned(Err("TYPE_MISMATCH"))
          ELSE IF o.result # "EXECUTED"
               THEN Returned(Ok([vm_status |-> o.result,
                                 output |-> discard_error_output("INVALID_WRITE_SET")]))
          ELSE IF ~o.change_set_ok
               THEN Returned(Err("UNKNOWN_INVARIANT_VIOLATION_ERROR"))
          ELSE [tag |-> "change_set",
                change_set |-> [write_set |-> FinishWrites(o.writes), events |-> o.events]]
          : o \in WriteSetScriptOutcomes}

\* read_writeset
read_writeset(write_set, storage_ok) ==
    IF write_set # <<>> /\ ~storage_ok THEN Err("STORAGE_ERROR") ELSE Ok(<<>>)

\* validate_waypoint_change_set
validate_waypoint_change_set(change_set) ==
    LET has_new_block_event == "new_block" \in Range(change_set.events)
        has_new_epoch_event == "new_epoch" \in Range(change_set.events)
    IN  IF has_new_block_event /\ has_new_epoch_event THEN Ok(<<>>)
        ELSE Err("INVALID_WRITE_SET")

\* process_waypoint_change_set, `cs` being what execute_writeset gave for the
\* payload: the set of ways it can end, one for every way the reads can end
process_waypoint_change_set(storage, cs) ==
    IF cs.tag = "return" THEN {cs.val}
    ELSE IF ~validate_waypoint_change_set(cs.change_set).ok
         THEN {Err(validate_waypoint_change_set(cs.change_set).err)}
    ELSE {IF ~read_writeset(cs.change_set.write_set, storage_ok).ok
          THEN Err(read_writeset(cs.change_set.write_set, storage_ok).err)
          ELSE Ok([vm_status |-> "EXECUTED",
                   output |-> TransactionOutput_new(
                                  cs.change_set.write_set, cs.change_set.events, 0,
                                  TransactionStatus_from("EXECUTED"))])
          : storage_ok \in BOOLEAN}

\* how run_writeset_epilogue and the conversion of its session end
WriteSetEpilogueOutcomes ==
    [aborts : BOOLEAN, finish_ok : Among(BOOLEAN, {TRUE}), storage_ok : BOOLEAN]

\* run_writeset_epilogue: bumps the sender's sequence number and, when asked
\* to, reconfigures
run_writeset_epilogue(sess, reconfig, aborts) ==
    IF aborts THEN Err("UNEXPECTED_ERROR_FROM_KNOWN_MOVE_FUNCTION")
    ELSE Ok([sess EXCEPT
                !.writes = IF reconfig
                           THEN Put(Put(@, "acct", sess.storage["acct"]), "cfg", 1)
                           ELSE Put(@, "acct", sess.storage["acct"]),
                !.events = IF reconfig THEN Append(@, "new_epoch") ELSE @])

\* WriteSetMut::freeze: a write set holds each state key once
WriteSetMut_freeze(ws) ==
    IF Cardinality(WsKeys(ws)) # Len(ws) THEN Err("INVALID_WRITE_SET") ELSE Ok(ws)

\* the merge without the check of the event keys
merge_ignoring_event_keys(storage, change_set, reconfig, o) ==
    LET e == run_writeset_epilogue(new_session(storage), reconfig, o.aborts)
        r == read_writeset(change_set.write_set, o.storage_ok)
        epilogue_writeset == FinishWrites(e.val.writes)
        epilogue_events == e.val.events
        write_set == WriteSetMut_freeze(epilogue_writeset \o change_set.write_set)
        events == change_set.events \o epilogue_events
    IN  IF ~e.ok THEN Err(e.err)
        ELSE IF ~r.ok
             THEN Ok([vm_status |-> r.err,
                      output |-> discard_error_output("INVALID_WRITE_SET")])
        ELSE IF ~o.finish_ok THEN Err("UNKNOWN_INVARIANT_VIOLATION_ERROR")
        ELSE IF WsKeys(epilogue_writeset) \cap WsKeys(change_set.write_set) # {}
             THEN Ok(discard_error_vm_status("INVALID_WRITE_SET"))
        ELSE IF ~write_set.ok THEN Err(write_set.err)
        ELSE Ok([vm_status |-> "EXECUTED",
                 output |-> TransactionOutput_new(write_set.val, events, 0,
                                                  [class |-> "Keep", code |-> "Success"])])

\* execute_writeset_transaction after execute_writeset gave change_set
merge_with_epilogue(storage, change_set, reconfig, o) ==
    LET e == run_writeset_epilogue(new_session(storage), reconfig, o.aborts)
        r == read_writeset(change_set.write_set, o.storage_ok)
        epilogue_writeset == FinishWrites(e.val.writes)
        epilogue_events == e.val.events
        write_set == WriteSetMut_freeze(epilogue_writeset \o change_set.write_set)
        events == change_set.events \o epilogue_events
    IN  IF ~e.ok THEN Err(e.err)
        ELSE IF ~r.ok
             THEN Ok([vm_status |-> r.err,
                      output |-> discard_error_output("INVALID_WRITE_SET")])
        ELSE IF ~o.finish_ok THEN Err("UNKNOWN_INVARIANT_VIOLATION_ERROR")
        ELSE IF WsKeys(epilogue_writeset) \cap WsKeys(change_set.write_set) # {}
             THEN Ok(discard_error_vm_status("INVALID_WRITE_SET"))
        ELSE IF Range(epilogue_events) \cap Range(change_set.events) # {}
             THEN Ok(discard_error_vm_status("INVALID_WRITE_SET"))
        ELSE IF ~write_set.ok THEN Err(write_set.err)
        ELSE Ok([vm_status |-> "EXECUTED",
                 output |-> TransactionOutput_new(write_set.val, events, 0,
                                                  [class |-> "Keep", code |-> "Success"])])

\* execute_writeset_transaction up to the change set execute_writeset gave:
\* what to return at once, or the change set to merge with the epilogue's
execute_writeset_transaction(storage, writeset_payload) ==
    {IF cs.tag = "return" THEN cs
     ELSE [tag |-> "change_set", change_set |-> cs.change_set,
           reconfig |-> writeset_payload.reconfig]
     : cs \in execute_writeset(storage, writeset_payload)}

\* process_writeset_transaction
process_writeset_transaction(storage, t) ==
    UNION {LET v == validate_transaction_checks(t, po)
           IN  IF ~v.res.ok THEN {Returned(Ok(discard_error_vm_status(v.res.err)))}
               ELSE IF t.payload # "WriteSet"
                    THEN {Returned(Ok(discard_error_vm_status("UNREACHABLE")))}
               ELSE UNION {execute_writeset_transaction(storage, p)
                           : p \in WriteSetPayloads}
           : po \in PrologueOutcomes}

\* what the VM does with the block prologue function
BlockPrologueOutcomes ==
    [result : {"EXECUTED", "ABORTED"}, new_epoch : BOOLEAN,
     finish_ok : Among(BOOLEAN, {TRUE})]

\* a process_block_prologue that turns a failed block prologue into a
\* discarded transaction
block_prologue_discarding_failure(storage, o) ==
    LET sess == [new_session(storage) EXCEPT
                    !.writes = {W("cfg", 1)},
                    !.events = IF o.new_epoch THEN <<"new_block", "new_epoch">>
                               ELSE <<"new_block">>]
        out  == get_transaction_output(sess, 0, 0, "Success", o.finish_ok)
    IN  IF o.result # "EXECUTED"
        THEN Ok(discard_error_vm_status("UNEXPECTED_ERROR_FROM_KNOWN_MOVE_FUNCTION"))
        ELSE IF ~out.ok THEN out
        ELSE Ok([vm_status |-> "EXECUTED", output |-> out.val])

\* process_block_prologue
process_block_prologue(storage, o) ==
    LET sess == [new_session(storage) EXCEPT
                    !.writes = {W("cfg", 1)},
                    !.events = IF o.new_epoch THEN <<"new_block", "new_epoch">>
                               ELSE <<"new_block">>]
        out  == get_transaction_output(sess, 0, 0, "Success", o.finish_ok)
    IN  IF o.result # "EXECUTED" THEN Err("UNEXPECTED_ERROR_FROM_KNOWN_MOVE_FUNCTION")
        ELSE IF ~out.ok THEN out
        ELSE Ok([vm_status |-> "EXECUTED", output |-> out.val])

(***************************************************************************)
(* The process-wide settings: two OnceCell<usize>, each set by the first   *)
(* call of its setter.  A setter is two steps, the clamping of its         *)
(* argument and OnceCell::set; the getters read their cell in one step.    *)
(***************************************************************************)
Threads == 1..MaxThreads

None == [none |-> TRUE]

Some(v) == [none |-> FALSE, value |-> v]

\* OnceCell::set: only the first call stores its value
OnceCell_set(cell, value) == IF cell = None THEN Some(value) ELSE cell

\* the arguments given to set_concurrency_level_once
ConcurrencyLevels == 0..MaxLevel

\* the arguments given to set_num_proof_reading_threads_once
ProofReadingThreads ==
    {0, DefaultProofReadingThreads, MaxProofReadingThreads - 1, MaxProofReadingThreads,
     MaxProofReadingThreads + MaxLevel}

\* get_concurrency_level
get_concurrency_level ==
    IF EXECUTION_CONCURRENCY_LEVEL # None THEN EXECUTION_CONCURRENCY_LEVEL.value
    ELSE DefaultConcurrencyLevel

\* get_num_proof_reading_threads
get_num_proof_reading_threads ==
    IF NUM_PROOF_READING_THREADS # None THEN NUM_PROOF_READING_THREADS.value
    ELSE DefaultProofReadingThreads

Idle == [pc |-> "idle"]

NoCalls ==
    [concurrency_level |-> <<>>, num_proof_reading_threads |-> <<>>, got |-> None]

InitSettings ==
    /\ EXECUTION_CONCURRENCY_LEVEL = None
    /\ NUM_PROOF_READING_THREADS = None
    /\ callers = [t \in Threads |-> Idle]
    /\ setting_calls = NoCalls

\* a thread enters a setter: the argument is clamped in the local variable
Enter(t, setter, arg, clamped) ==
    /\ callers[t] = Idle
    /\ Len(setting_calls.concurrency_level) + Len(setting_calls.num_proof_reading_threads)
          + Cardinality({u \in Threads : callers[u] # Idle}) < MaxSetCalls
    /\ callers' = [callers EXCEPT ![t] = [pc |-> setter, arg |-> arg, local |-> clamped]]
    /\ UNCHANGED <<EXECUTION_CONCURRENCY_LEVEL, NUM_PROOF_READING_THREADS, setting_calls,
                   outside_settings>>

\* set_concurrency_level_once, line 96
ClampConcurrencyLevel(t) ==
    \E concurrency_level \in ConcurrencyLevels :
       Enter(t, "set_concurrency_level_once", concurrency_level,
             Min(concurrency_level, NumCpus))

\* a setter that stores its value whatever the cell holds
OverwriteConcurrencyLevel(t) ==
    /\ callers[t].pc = "set_concurrency_level_once"
    /\ EXECUTION_CONCURRENCY_LEVEL' = Some(callers[t].local)
    /\ setting_calls' = [setting_calls EXCEPT
                            !.concurrency_level = Append(@, callers[t].arg)]
    /\ callers' = [callers EXCEPT ![t] = Idle]
    /\ UNCHANGED <<NUM_PROOF_READING_THREADS, outside_settings>>

\* set_concurrency_level_once, line 98
SetConcurrencyLevel(t) ==
    /\ callers[t].pc = "set_concurrency_level_once"
    /\ EXECUTION_CONCURRENCY_LEVEL'
          = OnceCell_set(EXECUTION_CONCURRENCY_LEVEL, callers[t].local)
    /\ setting_calls' = [setting_calls EXCEPT
                            !.concurrency_level = Append(@, callers[t].arg)]
    /\ callers' = [callers EXCEPT ![t] = Idle]
    /\ UNCHANGED <<NUM_PROOF_READING_THREADS, outside_settings>>

\* a call of get_concurrency_level; what it returned is kept in setting_calls.got
\* with the number of set calls completed before it
GetConcurrencyLevel(t) ==
    /\ callers[t] = Idle
    /\ setting_calls' = [setting_calls EXCEPT
                            !.got = Some([setting |-> "concurrency_level",
                                          value |-> get_concurrency_level,
                                          after |-> Len(setting_calls.concurrency_level)])]
    /\ UNCHANGED <<EXECUTION_CONCURRENCY_LEVEL, NUM_PROOF_READING_THREADS, callers,
                   outside_settings>>

\* set_num_proof_reading_threads_once, line 113
ClampNumThreads(t) ==
    \E num_threads \in ProofReadingThreads :
       Enter(t, "set_num_proof_reading_threads_once", num_threads,
             Min(num_threads, MaxProofReadingThreads))

\* a setter of the thread count that stores its value in both cells
SetBothSettings(t) ==
    /\ callers[t].pc = "set_num_proof_reading_threads_once"
    /\ NUM_PROOF_READING_THREADS'
          = OnceCell_set(NUM_PROOF_READING_THREADS, callers[t].local)
    /\ EXECUTION_CONCURRENCY_LEVEL'
          = OnceCell_set(EXECUTION_CONCURRENCY_LEVEL, callers[t].local)
    /\ setting_calls' = [setting_calls EXCEPT
                            !.num_proof_reading_threads = Append(@, callers[t].arg)]
    /\ callers' = [callers EXCEPT ![t] = Idle]
    /\ UNCHANGED outside_settings

\* set_num_proof_reading_threads_once, line 115
SetNumProofReadingThreads(t) ==
    /\ callers[t].pc = "set_num_proof_reading_threads_once"
    /\ NUM_PROOF_READING_THREADS'
          = OnceCell_set(NUM_PROOF_READING_THREADS, callers[t].local)
    /\ setting_calls' = [setting_calls EXCEPT
                            !.num_proof_reading_threads = Append(@, callers[t].arg)]
    /\ callers' = [callers EXCEPT ![t] = Idle]
    /\ UNCHANGED <<EXECUTION_CONCURRENCY_LEVEL, outside_settings>>

GetNumProofReadingThreads(t) ==
    /\ callers[t] = Idle
    /\ setting_calls' = [setting_calls EXCEPT
                            !.got = Some([setting |-> "num_proof_reading_threads",
                                          value |-> get_num_proof_reading_threads,
                                          after |-> Len(setting_calls
                                                          .num_proof_reading_threads)])]
    /\ UNCHANGED <<EXECUTION_CONCURRENCY_LEVEL, NUM_PROOF_READING_THREADS, callers,
                   outside_settings>>

NextSettings ==
    \/ \E t \in Threads : ClampConcurrencyLevel(t)
    \/ \E t \in Threads : SetConcurrencyLevel(t)
    \/ \E t \in Threads : GetConcurrencyLevel(t)
    \/ \E t \in Threads : ClampNumThreads(t)
    \/ \E t \in Threads : SetNumProofReadingThreads(t)
    \/ \E t \in Threads : GetNumProofReadingThreads(t)

(***************************************************************************)
(* A block-metadata transaction executed more than once on one state view. *)
(* What the on-chain block_prologue does is a function of the block        *)
(* metadata and the state view, fixed when the behaviour starts; the       *)
(* fail point at the head of process_block_prologue is not configured.     *)
(***************************************************************************)
BlockMetadatas == [round : 1..MaxRound]

\* a process_block_prologue whose injected failure goes off once the
\* process has executed a system transaction
block_prologue_failing_later(storage, block_metadata) ==
    IF SYSTEM_TRANSACTIONS_EXECUTED > 0
    THEN Err("UNKNOWN_INVARIANT_VIOLATION_ERROR")
    ELSE process_block_prologue(storage, on_chain_block_prologue[block_metadata])

\* process_block_prologue on the block metadata, the VM's part being
\* on_chain_block_prologue
run_block_prologue(storage, block_metadata) ==
    process_block_prologue(storage, on_chain_block_prologue[block_metadata])

InitPrologue ==
    /\ SYSTEM_TRANSACTIONS_EXECUTED = 0
    /\ on_chain_block_prologue = [b \in BlockMetadatas |->
                                     [result |-> "EXECUTED", new_epoch |-> FALSE,
                                      finish_ok |-> TRUE]]
    /\ prologue_runs = <<>>

\* process_block_prologue, with SYSTEM_TRANSACTIONS_EXECUTED.inc() when the
\* function ran through
ProcessBlockPrologue(block_metadata) ==
    /\ prologue_runs' = Append(prologue_runs,
                               [block_metadata |-> block_metadata,
                                ret |-> run_block_prologue(state_view, block_metadata)])
    /\ SYSTEM_TRANSACTIONS_EXECUTED' =
          IF on_chain_block_prologue[block_metadata].result = "EXECUTED"
          THEN SYSTEM_TRANSACTIONS_EXECUTED + 1
          ELSE SYSTEM_TRANSACTIONS_EXECUTED
    /\ UNCHANGED <<on_chain_block_prologue, outside_prologue>>

\* the first execution of a block-metadata transaction
ExecuteBlockMetadata ==
    /\ prologue_runs = <<>>
    /\ \E block_metadata \in BlockMetadatas : ProcessBlockPrologue(block_metadata)

\* the same transaction executed again on the same state view
ExecuteBlockMetadataAgain ==
    /\ prologue_runs # <<>>
    /\ Len(prologue_runs) < MaxRuns
    /\ ProcessBlockPrologue(prologue_runs[1].block_metadata)

NextPrologue ==
    \/ ExecuteBlockMetadata
    \/ ExecuteBlockMetadataAgain

(***************************************************************************)
(* CompleteDataRange<T> (storage-service types), T an unsigned integer     *)
(* type with the values 0..IntMax                                          *)
(***************************************************************************)
T == 0..IntMax

DegenerateRangeError == Err("data range cannot be degenerate")

\* PrimInt::checked_sub
checked_sub(a, b) == IF a >= b THEN Some(a - b) ELSE None

\* PrimInt::checked_add
checked_add(a, b) == IF a + b <= IntMax THEN Some(a + b) ELSE None

\* range_length_checked
range_length_checked(lowest, highest) ==
    LET value == checked_sub(highest, lowest)
        len   == IF value = None THEN None ELSE checked_add(value.value, 1)
    IN  IF len = None THEN DegenerateRangeError ELSE Ok(len.value)

\* a constructor that only compares the two ends
new_comparing_ends(lowest, highest) ==
    IF lowest > highest THEN DegenerateRangeError
    ELSE Ok([lowest |-> lowest, highest |-> highest])

\* CompleteDataRange::new
CompleteDataRange_new(lowest, highest) ==
    IF lowest > highest \/ ~range_length_checked(lowest, highest).ok
    THEN DegenerateRangeError
    ELSE Ok([lowest |-> lowest, highest |-> highest])

\* CompleteDataRange::from_len
CompleteDataRange_from_len(lowest, len) ==
    LET addend  == checked_sub(len, 1)
        highest == IF addend = None THEN None ELSE checked_add(lowest, addend.value)
    IN  IF highest = None THEN DegenerateRangeError
        ELSE CompleteDataRange_new(lowest, highest.value)

\* CompleteDataRange::len
CompleteDataRange_len(self) ==
    LET value == checked_sub(self.highest, self.lowest)
        len   == IF value = None THEN None ELSE checked_add(value.value, 1)
    IN  IF len = None THEN DegenerateRangeError ELSE Ok(len.value)

\* CompleteDataRange::from_genesis
CompleteDataRange_from_genesis(highest) == [lowest |-> 0, highest |-> highest]

\* Deserialize for CompleteDataRange: the two fields as they come, then new
CompleteDataRange_deserialize(value) ==
    CompleteDataRange_new(value.lowest, value.highest)

InitRange ==
    /\ data_range = None
    /\ range_call = None

New ==
    /\ \E lowest \in T, highest \in T :
          /\ data_range' = CompleteDataRange_new(lowest, highest)
          /\ range_call' = [fn |-> "new", lowest |-> lowest, highest |-> highest]
    /\ UNCHANGED outside_range

FromLen ==
    /\ \E lowest \in T, len \in T :
          /\ data_range' = CompleteDataRange_from_len(lowest, len)
          /\ range_call' = [fn |-> "from_len", lowest |-> lowest, len |-> len]
    /\ UNCHANGED outside_range

FromGenesis ==
    /\ \E highest \in T :
          /\ data_range' = Ok(CompleteDataRange_from_genesis(highest))
          /\ range_call' = [fn |-> "from_genesis", highest |-> highest]
    /\ UNCHANGED outside_range

Deserialize ==
    /\ \E value \in [lowest : T, highest : T] :
          /\ data_range' = CompleteDataRange_deserialize(value)
          /\ range_call' = [fn |-> "deserialize", lowest |-> value.lowest,
                            highest |-> value.highest]
    /\ UNCHANGED outside_range

NextRange ==
    \/ New
    \/ FromLen
    \/ FromGenesis
    \/ Deserialize

(***************************************************************************)
(* ConcurrentTxnCache (consensus/src/txn_cache.rs).  insert and            *)
(* filter_and_update take &mut self, so no two calls overlap; inside       *)
(* filter_and_update the chunks of the batch run on the threads of the     *)
(* pool, each item one lru_update under the read lock.                     *)
(***************************************************************************)
Elements == 1..MaxElement

ItemLists == UNION {[1..n -> Elements] : n \in 0..MaxItems}

\* ConcurrentTxnCache::hash: the hash of the serialized element under the
\* seed "CacheTesting"
hash(element) == <<"CacheTesting", element>>

\* an lru_update that looks the hash up and leaves the halves as they are
lru_lookup(cs, idx, h) ==
    [in_cache |-> h \in cs[1] \cup cs[2], size |-> None, caches |-> cs]

\* CacheState::lru_update on the halves cs with current_idx = idx: what it
\* returns, and the halves afterwards
lru_update(cs, idx, h) ==
    IF h \in cs[idx + 1]
    THEN [in_cache |-> TRUE, size |-> None, caches |-> cs]
    ELSE [in_cache |-> h \in cs[2 - idx], size |-> None,
          caches |-> [cs EXCEPT ![idx + 1] = @ \cup {h}]]

\* CacheState::switch
switch(cs, idx) ==
    [caches |-> [cs EXCEPT ![idx + 1] = {}], current_idx |-> 1 - idx]

\* lru_update, then switch if the size it returned is over max_size
update_then_switch(cs, idx, h) ==
    LET u == lru_update(cs, idx, h)
    IN  IF u.size # None /\ u.size.value > CacheSize
        THEN [in_cache |-> u.in_cache] @@ switch(u.caches, idx)
        ELSE [in_cache |-> u.in_cache, caches |-> u.caches, current_idx |-> idx]

\* items.par_chunks(chunk_size): chunk c holds the items first..last
par_chunks(items) ==
    [c \in 1..((Len(items) + ChunkSize - 1) \div ChunkSize) |->
        [next |-> (c - 1) * ChunkSize + 1,
         last |-> Min(c * ChunkSize, Len(items)),
         ret  |-> <<>>]]

\* flat_map(..).collect(): the `ret` of the chunks in the order of the chunks
RECURSIVE collect(_)
collect(cs) == IF cs = <<>> THEN <<>> ELSE Head(cs).ret \o collect(Tail(cs))

\* ConcurrentTxnCache::insert
Insert ==
    /\ filter_pc # "chunks"
    /\ \E element \in Elements :
          LET u == update_then_switch(caches, current_idx, hash(element))
          IN  /\ caches' = u.caches
              /\ current_idx' = u.current_idx
    /\ UNCHANGED <<filter_pc, filter_items, chunks, was_in_cache, cache_at_call,
                   filter_ret, outside_cache>>

\* filter_and_update is called: the batch is split into chunks
FilterAndUpdate ==
    /\ filter_pc # "chunks"
    /\ \E items \in ItemLists :
          /\ filter_items' = items
          /\ chunks' = par_chunks(items)
          /\ was_in_cache' = [i \in 1..Len(items) |-> FALSE]
    /\ cache_at_call' = caches[1] \cup caches[2]
    /\ filter_pc' = "chunks"
    /\ filter_ret' = <<>>
    /\ UNCHANGED <<caches, current_idx, outside_cache>>

\* a closure that decides on the halves as they were when filter_and_update
\* was called: the workers do not see each other's insertions
FilterChunkItemOnSnapshot ==
    /\ filter_pc = "chunks"
    /\ \E c \in DOMAIN chunks :
          /\ chunks[c].next <= chunks[c].last
          /\ LET i   == chunks[c].next
                 key == hash(filter_items[i])
                 u   == update_then_switch(caches, current_idx, key)
             IN  /\ caches' = u.caches
                 /\ current_idx' = u.current_idx
                 /\ chunks' = [chunks EXCEPT
                                  ![c].next = @ + 1,
                                  ![c].ret = IF key \in cache_at_call THEN @
                                             ELSE Append(@, filter_items[i])]
                 /\ was_in_cache' = [was_in_cache EXCEPT
                                        ![i] = key \in caches[1] \cup caches[2]]
    /\ UNCHANGED <<filter_pc, filter_items, filter_ret, cache_at_call, outside_cache>>

\* the closure of filter_and_update on the next item of one of the chunks
FilterChunkItem ==
    /\ filter_pc = "chunks"
    /\ \E c \in DOMAIN chunks :
          /\ chunks[c].next <= chunks[c].last
          /\ LET i   == chunks[c].next
                 key == hash(filter_items[i])
                 u   == update_then_switch(caches, current_idx, key)
             IN  /\ caches' = u.caches
                 /\ current_idx' = u.current_idx
                 /\ chunks' = [chunks EXCEPT
                                  ![c].next = @ + 1,
                                  ![c].ret = IF u.in_cache THEN @
                                             ELSE Append(@, filter_items[i])]
                 /\ was_in_cache' = [was_in_cache EXCEPT
                                        ![i] = key \in caches[1] \cup caches[2]]
    /\ UNCHANGED <<filter_pc, filter_items, filter_ret, cache_at_call, outside_cache>>

\* every chunk is through: filter_and_update returns the collected items
FilterReturn ==
    /\ filter_pc = "chunks"
    /\ \A c \in DOMAIN chunks : chunks[c].next > chunks[c].last
    /\ filter_ret' = collect(chunks)
    /\ filter_pc' = "returned"
    /\ UNCHANGED <<caches, current_idx, filter_items, chunks, was_in_cache,
                   cache_at_call, outside_cache>>

NextCache ==
    \/ Insert
    \/ FilterAndUpdate
    \/ FilterChunkItem
    \/ FilterReturn

(***************************************************************************)
(* AccountTransactionVersionIter (aptosdb/src/transaction_store/mod.rs).   *)
(* The schema maps (address, sequence number) to a version; its iterator   *)
(* goes through the entries in key order.  What the schema holds is any    *)
(* map: the checks of the iterator are there for a corrupt one.            *)
(***************************************************************************)
Versions == 0..MaxVersion

\* the address the iterator is asked for; the schema also has entries of
\* an address below it and of an address above it
Sender == 2

\* the keys of the schema in key order: one of address 1, all of the
\* sender, one of address 3
SchemaKeys ==
    [i \in 1..(MaxSeqNum + 3) |->
        IF i = 1 THEN [address |-> Sender - 1, seq_num |-> MaxSeqNum]
        ELSE IF i <= MaxSeqNum + 2 THEN [address |-> Sender, seq_num |-> i - 2]
        ELSE [address |-> Sender + 1, seq_num |-> 0]]

\* the contents the schema can have (f[i] = -1: no entry under key i); the
\* entries of the other addresses have version 0
Schemas ==
    {LET ks == SelectSeq([i \in 1..Len(SchemaKeys) |-> i], LAMBDA i : f[i] # -1)
     IN  [k \in 1..Len(ks) |->
            [address |-> SchemaKeys[ks[k]].address,
             seq_num |-> SchemaKeys[ks[k]].seq_num,
             version |-> f[ks[k]]]] :
     f \in {g \in [1..Len(SchemaKeys) -> Versions \cup {-1}] :
               g[1] <= 0 /\ g[Len(SchemaKeys)] <= 0}}

\* SchemaIterator::seek: the position of the first entry whose key is not
\* below (address, seq_num)
seek(entries, address, seq_num) ==
    LET at == {i \in 1..Len(entries) :
                  \/ entries[i].address > address
                  \/ entries[i].address = address /\ entries[i].seq_num >= seq_num}
    IN  IF at = {} THEN Len(entries) + 1 ELSE CHOOSE i \in at : \A j \in at : i <= j

\* u64::checked_add on the sequence numbers
checked_add_u64(a, b) == IF a + b <= U64Max THEN Some(a + b) ELSE None

\* get_account_transaction_version_iter
get_account_transaction_version_iter(entries, address, min_seq_num, num_versions, ledger_version) ==
    LET end_seq_num == checked_add_u64(min_seq_num, num_versions)
    IN  IF end_seq_num = None THEN Err("too many transactions requested")
        ELSE Ok([inner |-> seek(entries, address, min_seq_num),
                 address |-> address,
                 expected_next_seq_num |-> None,
                 end_seq_num |-> end_seq_num.value,
                 prev_version |-> None,
                 ledger_version |-> ledger_version])

NextNone(self) == [self |-> self, ret |-> Ok(None)]

\* a next_impl that does not compare the version with the previous one
next_impl_comparing_seq_nums(self, entries) ==
    IF self.inner > Len(entries) THEN NextNone(self)
    ELSE LET e  == entries[self.inner]
             it == [self EXCEPT !.inner = @ + 1]
         IN  IF e.address # self.address THEN NextNone(it)
             ELSE IF e.seq_num >= self.end_seq_num THEN NextNone(it)
             ELSE IF /\ self.expected_next_seq_num # None
                     /\ e.seq_num # self.expected_next_seq_num.value
             THEN [self |-> it, ret |-> Err("sequence numbers are not contiguous")]
             ELSE IF e.version > self.ledger_version THEN NextNone(it)
             ELSE [self |-> [it EXCEPT !.expected_next_seq_num = Some(e.seq_num + 1),
                                       !.prev_version = Some(e.version)],
                   ret |-> Ok(Some([seq_num |-> e.seq_num, version |-> e.version]))]

\* AccountTransactionVersionIter::next_impl: the iterator afterwards and
\* what it returns
next_impl(self, entries) ==
    IF self.inner > Len(entries) THEN NextNone(self)
    ELSE LET e  == entries[self.inner]
             it == [self EXCEPT !.inner = @ + 1]
         IN  IF e.address # self.address THEN NextNone(it)
             ELSE IF e.seq_num >= self.end_seq_num THEN NextNone(it)
             ELSE IF /\ self.expected_next_seq_num # None
                     /\ e.seq_num # self.expected_next_seq_num.value
             THEN [self |-> it, ret |-> Err("sequence numbers are not contiguous")]
             ELSE IF /\ self.prev_version # None
                     /\ ~(self.prev_version.value < e.version)
             THEN [self |-> it, ret |-> Err("versions are not strictly increasing")]
             ELSE IF e.version > self.ledger_version THEN NextNone(it)
             ELSE [self |-> [it EXCEPT !.expected_next_seq_num = Some(e.seq_num + 1),
                                       !.prev_version = Some(e.version)],
                   ret |-> Ok(Some([seq_num |-> e.seq_num, version |-> e.version]))]

\* get_account_transaction_version_iter on some contents of the schema
GetAccountTransactionVersionIter ==
    /\ iter = None
    /\ \E entries \in Schemas, min_seq_num \in 0..U64Max,
          num_versions \in 0..U64Max, ledger_version \in Versions :
          /\ db' = entries
          /\ iter_call' = [address |-> Sender, min_seq_num |-> min_seq_num,
                           num_versions |-> num_versions,
                           ledger_version |-> ledger_version]
          /\ iter' = get_account_transaction_version_iter(
                         entries, Sender, min_seq_num, num_versions, ledger_version)
    /\ UNCHANGED <<last_next, yielded, outside_iter>>

\* Iterator::next, also after it returned None or an error, until the
\* schema's iterator is at its end
IterNext ==
    /\ iter # None
    /\ iter.ok
    /\ IF last_next = None THEN TRUE ELSE last_next.before.inner <= Len(db)
    /\ LET r == next_impl(iter.val, db)
       IN  /\ iter' = Ok(r.self)
           /\ last_next' = [before |-> iter.val,
                            given |-> Len(yielded),
                            entry |-> IF iter.val.inner <= Len(db)
                                      THEN Some(db[iter.val.inner]) ELSE None,
                            ret |-> r.ret]
           /\ yielded' = IF r.ret.ok /\ r.ret.val # None
                         THEN Append(yielded,
                                     [address |-> db[iter.val.inner].address,
                                      seq_num |-> r.ret.val.value.seq_num,
                                      version |-> r.ret.val.value.version])
                         ELSE yielded
    /\ UNCHANGED <<db, iter_call, outside_iter>>

NextIter ==
    \/ GetAccountTransactionVersionIter
    \/ IterNext

(***************************************************************************)
(* AsyncProofFetcher (storage-interface/src/async_proof_fetcher.rs).  One  *)
(* thread calls read_proof_async and finish_and_read_proofs, one after     *)
(* the other; the proof reads it spawns run on the threads of the pool at  *)
(* any later moment.                                                       *)
(***************************************************************************)
StateKeys == {"acct", "res"}

\* CryptoHash::hash of a state key
StateKey_hash(state_key) == <<"StateKey", state_key>>

\* DbReader::get_state_proof_by_version
get_state_proof_by_version(state_key, version) ==
    [proof_of |-> state_key, at_version |-> version]

\* HashMap::insert
HashMap_insert(map, k, v) ==
    [x \in DOMAIN map \cup {k} |-> IF x = k THEN v ELSE map[x]]

\* the sequence without its i-th element
Without(seq, i) == SubSeq(seq, 1, i - 1) \o SubSeq(seq, i + 1, Len(seq))

\* read_proof_async: the counter goes up and the read is spawned
ReadProofAsync ==
    /\ fetcher_pc \in {"idle", "returned"}
    /\ num_proofs_to_read < MaxReads
    /\ \E state_key \in StateKeys, version \in {0, MaxVersion} :
          /\ spawned' = Append(spawned, [state_key |-> state_key, version |-> version])
          /\ requested' = (IF fetcher_pc = "returned" THEN {} ELSE requested)
                             \cup {[state_key |-> state_key, version |-> version]}
    /\ num_proofs_to_read' = num_proofs_to_read + 1
    /\ fetcher_pc' = "idle"
    /\ UNCHANGED <<channel, finish_local, proof_cache, outside_fetcher>>

\* a proof read that never sends its proof
ProcessProofReadSilently ==
    /\ \E i \in 1..Len(spawned) : spawned' = Without(spawned, i)
    /\ UNCHANGED <<num_proofs_to_read, channel, fetcher_pc, finish_local, proof_cache,
                   requested, outside_fetcher>>

\* process_proof_read on a thread of the pool
ProcessProofRead ==
    /\ \E i \in 1..Len(spawned) :
          LET proof == get_state_proof_by_version(spawned[i].state_key,
                                                  spawned[i].version)
          IN  /\ channel' = Append(channel,
                                   <<StateKey_hash(spawned[i].state_key), proof>>)
              /\ spawned' = Without(spawned, i)
    /\ UNCHANGED <<num_proofs_to_read, fetcher_pc, finish_local, proof_cache,
                   requested, outside_fetcher>>

\* finish_and_read_proofs is called: the bound of its loop is loaded
FinishAndReadProofs ==
    /\ fetcher_pc \in {"idle", "returned"}
    /\ finish_local' = Some([n |-> num_proofs_to_read, received |-> 0,
                             proofs |-> <<>>])
    /\ requested' = IF fetcher_pc = "returned" THEN {} ELSE requested
    /\ fetcher_pc' = "recv"
    /\ UNCHANGED <<num_proofs_to_read, channel, spawned, proof_cache, outside_fetcher>>

\* one turn of the loop: recv blocks until the channel has a message
FinishRecv ==
    /\ fetcher_pc = "recv"
    /\ finish_local.value.received < finish_local.value.n
    /\ channel # <<>>
    /\ channel' = Tail(channel)
    /\ finish_local' = Some([finish_local.value EXCEPT
                                !.received = @ + 1,
                                !.proofs = HashMap_insert(@, Head(channel)[1],
                                                          Head(channel)[2])])
    /\ UNCHANGED <<num_proofs_to_read, spawned, fetcher_pc, proof_cache, requested,
                   outside_fetcher>>

\* the loop is over: the counter is reset and the proofs are returned
FinishReturn ==
    /\ fetcher_pc = "recv"
    /\ finish_local.value.received = finish_local.value.n
    /\ num_proofs_to_read' = 0
    /\ proof_cache' = Some(finish_local.value.proofs)
    /\ finish_local' = None
    /\ fetcher_pc' = "returned"
    /\ UNCHANGED <<channel, spawned, requested, outside_fetcher>>

NextFetcher ==
    \/ ReadProofAsync
    \/ ProcessProofRead
    \/ FinishAndReadProofs
    \/ FinishRecv
    \/ FinishReturn

\* read_proof_async on another thread while finish_and_read_proofs is in its
\* loop (both take &self); the proofs in flight are kept under MaxReads
ReadProofAsyncBeside ==
    /\ fetcher_pc = "recv"
    /\ num_proofs_to_read < MaxReads
    /\ Len(channel) + Len(spawned) < MaxReads
    /\ \E state_key \in StateKeys, version \in {0, MaxVersion} :
          /\ spawned' = Append(spawned, [state_key |-> state_key, version |-> version])
          /\ requested' = requested \cup {[state_key |-> state_key, version |-> version]}
    /\ num_proofs_to_read' = num_proofs_to_read + 1
    /\ UNCHANGED <<channel, fetcher_pc, finish_local, proof_cache, outside_fetcher>>

NextFetcherThreads ==
    \/ ReadProofAsync
    \/ ReadProofAsyncBeside
    \/ ProcessProofRead
    \/ FinishAndReadProofs
    \/ FinishRecv
    \/ FinishReturn

(***************************************************************************)
(* The pool of the AsyncProofFetcher: AsyncProofFetcher::new builds it, and *)
(* every spawned proof read waits for one of its threads.                  *)
(***************************************************************************)
\* set_num_proof_reading_threads_once, in one step
set_num_proof_reading_threads_once(cell, num_threads) ==
    OnceCell_set(cell, Min(num_threads, MaxProofReadingThreads))

SetNumThreadsOnce ==
    /\ \E num_threads \in 1..MaxReads :
          NUM_PROOF_READING_THREADS'
             = set_num_proof_reading_threads_once(NUM_PROOF_READING_THREADS, num_threads)
    /\ UNCHANGED <<EXECUTION_CONCURRENCY_LEVEL, callers, setting_calls, outside_settings>>

\* AsyncProofFetcher::new: the pool is built with num_threads(256)
AsyncProofFetcher_new ==
    /\ pool = None
    /\ pool' = Some(PoolThreads)
    /\ threads_at_new' = Some(get_num_proof_reading_threads)
    /\ UNCHANGED <<running, outside_pool>>

\* read_proof_async on the fetcher
PoolReadProofAsync ==
    /\ pool # None
    /\ ReadProofAsync

\* a free thread of the pool takes a spawned proof read
StartProofRead ==
    /\ pool # None
    /\ Len(running) < pool.value
    /\ \E i \in 1..Len(spawned) :
          /\ running' = Append(running, spawned[i])
          /\ spawned' = Without(spawned, i)
    /\ UNCHANGED <<pool, threads_at_new, num_proofs_to_read, channel, fetcher_pc,
                   finish_local, proof_cache, requested, outside_pool_and_fetcher>>

\* process_proof_read comes to its end on a thread of the pool
CompleteProofRead ==
    /\ \E i \in 1..Len(running) :
          LET proof == get_state_proof_by_version(running[i].state_key,
                                                  running[i].version)
          IN  /\ channel' = Append(channel,
                                   <<StateKey_hash(running[i].state_key), proof>>)
              /\ running' = Without(running, i)
    /\ UNCHANGED <<pool, threads_at_new, num_proofs_to_read, spawned, fetcher_pc,
                   finish_local, proof_cache, requested, outside_pool_and_fetcher>>

NextPool ==
    \/ SetNumThreadsOnce
    \/ AsyncProofFetcher_new
    \/ PoolReadProofAsync
    \/ StartProofRead
    \/ CompleteProofRead

(***************************************************************************)
(* create_namespace and its retry (forge/src/backend/k8s/cluster_helper.rs)*)
(***************************************************************************)
\* what CreateNamespace::create can answer: the namespace, an error
\* response of the API with its code, or another KubeError (the request
\* did not get an answer from the API)
ApiAnswers ==
    {[kind |-> "Ok", code |-> 0]}
    \cup {[kind |-> "KubeError::Api", code |-> c] : c \in {401, 403, 409, 500}}
    \cup {[kind |-> "KubeError::Other", code |-> 0]}

\* create_namespace on the answer of namespace_creator.create
create_namespace(answer) ==
    IF answer.kind = "KubeError::Api"
    THEN IF answer.code = 409 THEN Ok("unit")
         ELSE IF answer.code = 401 THEN Err("FinalError")
         ELSE Err("RetryableError")
    ELSE Ok("unit")

\* the condition of retry_if
is_retryable(e) == e = "RetryableError"

\* create_management_configmap is called
CreateManagementConfigmap ==
    /\ configmap_pc = "idle"
    /\ configmap_pc' = "create_namespace"
    /\ UNCHANGED <<attempts, outside_namespace>>

\* retry_if: one call of create_namespace; it is repeated if the condition
\* holds of its error and the policy has attempts left
TryCreateNamespace ==
    /\ configmap_pc = "create_namespace"
    /\ \E answer \in ApiAnswers :
          LET r == create_namespace(answer)
          IN  /\ attempts' = Append(attempts, [answer |-> answer, ret |-> r])
              /\ configmap_pc' =
                    IF r.ok THEN "configmap"
                    ELSE IF is_retryable(r.err) /\ Len(attempts) + 1 < MaxAttempts
                    THEN "create_namespace"
                    ELSE "failed"
    /\ UNCHANGED outside_namespace

NextNamespace ==
    \/ CreateManagementConfigmap
    \/ TryCreateNamespace

(***************************************************************************)
(* Transactions                                                            *)
(***************************************************************************)
Payloads == {"Script", "ScriptFunction", "ModuleBundle", "WriteSet"}

\* signature-checked user transactions (PreprocessedTransaction::UserTransaction)
UserTxns ==
    [kind : {"UserTransaction"}, payload : Payloads,
     max_gas_amount : Among(0..MaxGas, {MaxGas}),
     dup_signers : BOOLEAN, sig_valid : {TRUE}]

\* PreprocessedTransaction::WriteSet
WriteSetTxns ==
    [kind : {"WriteSet"}, payload : Among(Payloads, {"WriteSet"}), max_gas_amount : {0},
     dup_signers : Among(BOOLEAN, {FALSE}), sig_valid : {TRUE}]

\* the variants of PreprocessedTransaction that carry no signed transaction
OtherTxns ==
    [kind : {"BlockMetadata", "WaypointWriteSet", "InvalidSignature", "StateCheckpoint"},
     payload : {"None"}, max_gas_amount : {0}, dup_signers : {FALSE}, sig_valid : {FALSE}]

\* the SignedTransaction given to simulate_signed_transaction
SimulatedTxns ==
    [kind : {"Simulated"}, payload : Payloads, max_gas_amount : {MaxGas},
     dup_signers : BOOLEAN, sig_valid : BOOLEAN]

NoTxn == [kind |-> "None"]

NoRet == [none |-> TRUE]

EmptyHist == [steps |-> <<>>, gas_log |-> <<>>, dropped |-> {}, dropped_events |-> <<>>,
              bundle |-> <<>>, cleanups |-> 0, validation |-> "", epilogue |-> "",
              seen |-> NoRet]

\* the resolver a call reads
Resolver == IF entry = "simulate_signed_transaction" THEN state_view ELSE data_cache

Current == Attempt(session, gas_meter.balance, hist.steps, hist.gas_log, hist.bundle)

InitViews ==
    {[k \in Keys |-> IF k = "acct" THEN InitBalance ELSE 0],
     [k \in Keys |-> IF k = "acct" THEN 1 ELSE IF k = ModKey(1) THEN 1 ELSE 0]}

\* no execute_block under way
InitStrategies ==
    /\ strategy_block = <<>>
    /\ strategy_pc = "idle"
    /\ versioned = <<>>
    /\ strategy_ret = NoRet

\* ConcurrentTxnCache::new
InitCache ==
    /\ caches = <<{}, {}>>
    /\ current_idx = 0
    /\ filter_pc = "idle"
    /\ filter_items = <<>>
    /\ chunks = <<>>
    /\ was_in_cache = <<>>
    /\ cache_at_call = {}
    /\ filter_ret = <<>>

\* no iterator asked for yet
InitIter ==
    /\ db = <<>>
    /\ iter_call = None
    /\ iter = None
    /\ last_next = None
    /\ yielded = <<>>

\* AsyncProofFetcher::new
InitFetcher ==
    /\ num_proofs_to_read = 0
    /\ channel = <<>>
    /\ spawned = <<>>
    /\ fetcher_pc = "idle"
    /\ finish_local = None
    /\ proof_cache = None
    /\ requested = {}

\* create_management_configmap not yet called
InitNamespace ==
    /\ configmap_pc = "idle"
    /\ attempts = <<>>

\* no AsyncProofFetcher yet
InitPool ==
    /\ pool = None
    /\ threads_at_new = None
    /\ running = <<>>

InitExecution ==
    /\ state_view \in InitViews
    /\ data_cache = state_view
    /\ transactions = <<>>
    /\ result = <<>>
    /\ should_restart = FALSE
    /\ block_ret = NoRet
    /\ entry = "none"
    /\ pc = "idle"
    /\ txn = NoTxn
    /\ session = NoSession
    /\ gas_meter = NoMeter
    /\ exec_result = NoRet
    /\ gas_usage = 0
    /\ ret = NoRet
    /\ hist = EmptyHist

Init ==
    /\ InitExecution
    /\ InitSettings
    /\ InitPrologue
    /\ InitRange
    /\ InitStrategies
    /\ InitCache
    /\ InitIter
    /\ InitFetcher
    /\ InitNamespace
    /\ InitPool

\* the state view and what block_prologue does on it are any
InitAnyPrologue ==
    /\ InitExecution
    /\ InitSettings
    /\ SYSTEM_TRANSACTIONS_EXECUTED = 0
    /\ on_chain_block_prologue \in [BlockMetadatas -> BlockPrologueOutcomes]
    /\ prologue_runs = <<>>
    /\ InitRange
    /\ InitStrategies
    /\ InitCache
    /\ InitIter
    /\ InitFetcher
    /\ InitNamespace
    /\ InitPool

(***************************************************************************)
(* execute_single_transaction                                              *)
(***************************************************************************)
\* the arms of execute_single_transaction that run to their end at once;
\* `seen` is what the VM did on the way (history, not program state)
execute_system_transaction(storage, t) ==
    IF t.kind = "BlockMetadata"
    THEN {[tag |-> "return", val |-> process_block_prologue(storage, o), seen |-> o]
          : o \in BlockPrologueOutcomes}
    ELSE IF t.kind = "WaypointWriteSet"
    THEN UNION {UNION {{[tag |-> "return", val |-> r, seen |-> cs]
                       : r \in process_waypoint_change_set(storage, cs)}
                      : cs \in execute_writeset(storage, p)}
                : p \in WriteSetPayloads}
    ELSE IF t.kind = "WriteSet"
    THEN process_writeset_transaction(storage, t)
    ELSE IF t.kind = "InvalidSignature"
    THEN {Returned(Ok(discard_error_vm_status("INVALID_SIGNATURE")))}
    ELSE {Returned(Ok([vm_status |-> "EXECUTED",
                       output |-> TransactionOutput_new(
                                      <<>>, <<>>, 0,
                                      [class |-> "Keep", code |-> "Success"])]))}

\* execute_single_transaction, a user transaction: execute_user_transaction
\* opens its session
BeginUserTransaction(t) ==
    /\ txn' = t
    /\ session' = new_session(data_cache)
    /\ gas_meter' = NoMeter
    /\ exec_result' = NoRet
    /\ gas_usage' = 0
    /\ ret' = NoRet
    /\ hist' = [EmptyHist EXCEPT !.steps = <<Step("new_session", "", "")>>]
    /\ pc' = "validating"

\* execute_single_transaction, any other transaction
RunSystemTransaction(t) ==
    /\ \E r \in execute_system_transaction(data_cache, t) :
          /\ hist' = [EmptyHist EXCEPT
                          !.seen = IF "seen" \in DOMAIN r THEN r.seen ELSE NoRet]
          /\ IF r.tag = "return"
             THEN /\ ret' = r.val
                  /\ exec_result' = NoRet
                  /\ pc' = "returned"
             ELSE /\ ret' = NoRet
                  /\ exec_result' = r
                  /\ pc' = "writeset_epilogue"
    /\ txn' = t
    /\ session' = NoSession
    /\ gas_meter' = NoMeter
    /\ gas_usage' = 0

ExecuteUserTransaction ==
    /\ pc = "idle"
    /\ entry' = "execute_single_transaction"
    /\ \E t \in UserTxns : BeginUserTransaction(t)
    /\ UNCHANGED <<state_view, outside_vars, block_vars>>

ExecuteSystemTransaction ==
    /\ pc = "idle"
    /\ entry' = "execute_single_transaction"
    /\ \E t \in WriteSetTxns \cup OtherTxns : RunSystemTransaction(t)
    /\ UNCHANGED <<state_view, outside_vars, block_vars>>

\* a simulation that does not look at the signature
SimulateAnySignature ==
    /\ pc = "idle"
    /\ entry' = "simulate_signed_transaction"
    /\ \E t \in SimulatedTxns :
          /\ txn' = t
          /\ ret' = NoRet
          /\ session' = new_session(state_view)
          /\ hist' = [EmptyHist EXCEPT !.steps = <<Step("new_session", "", "")>>]
          /\ pc' = "validating"
    /\ gas_meter' = NoMeter
    /\ exec_result' = NoRet
    /\ gas_usage' = 0
    /\ UNCHANGED <<state_view, outside_vars, block_vars>>

\* simulate_signed_transaction up to the session opened for validation
SimulateSignedTransaction ==
    /\ pc = "idle"
    /\ entry' = "simulate_signed_transaction"
    /\ \E t \in SimulatedTxns :
          /\ txn' = t
          /\ IF t.sig_valid
             THEN /\ ret' = Ok(discard_error_vm_status("INVALID_SIGNATURE"))
                  /\ session' = NoSession
                  /\ hist' = EmptyHist
                  /\ pc' = "returned"
             ELSE /\ ret' = NoRet
                  /\ session' = new_session(state_view)
                  /\ hist' = [EmptyHist EXCEPT !.steps = <<Step("new_session", "", "")>>]
                  /\ pc' = "validating"
    /\ gas_meter' = NoMeter
    /\ exec_result' = NoRet
    /\ gas_usage' = 0
    /\ UNCHANGED <<state_view, outside_vars, block_vars>>

(***************************************************************************)
(* execute_user_transaction / simulate_signed_transaction, step by step    *)
(***************************************************************************)
\* a dispatch that goes on to the payload whatever the validation said
dispatch_unvalidated(t, o) ==
    LET v == validate_transaction_checks(t, o)
    IN  IF t.payload = "WriteSet"
        THEN [next |-> "return", calls |-> v.calls,
              checked |-> IF v.res.ok THEN "ok" ELSE v.res.err,
              meter |-> AptosGasMeter_new(t.max_gas_amount),
              val |-> discard_error_vm_status("UNREACHABLE")]
        ELSE [next |-> "execute", calls |-> v.calls,
              checked |-> IF v.res.ok THEN "ok" ELSE v.res.err,
              meter |-> AptosGasMeter_new(t.max_gas_amount)]

\* validation, get_gas_parameters, the gas meter and the payload dispatch:
\* the result is "execute" or the output to return
validate_and_dispatch(t, o) ==
    LET v == validate_transaction_checks(t, o)
    IN  IF ~v.res.ok
        THEN [next |-> "return", calls |-> v.calls, checked |-> v.res.err,
              meter |-> NoMeter, val |-> discard_error_vm_status(v.res.err)]
        ELSE IF ~o.gas_params_ok
        THEN [next |-> "return", calls |-> v.calls, checked |-> "ok",
              meter |-> NoMeter, val |-> discard_error_vm_status("VM_STARTUP_FAILURE")]
        ELSE IF t.payload = "WriteSet"
        THEN [next |-> "return", calls |-> v.calls, checked |-> "ok",
              meter |-> AptosGasMeter_new(t.max_gas_amount),
              val |-> discard_error_vm_status("UNREACHABLE")]
        ELSE [next |-> "execute", calls |-> v.calls, checked |-> "ok",
              meter |-> AptosGasMeter_new(t.max_gas_amount)]

\* simulate_signed_transaction from the validation to the payload dispatch:
\* "execute" or the output to return
simulate_and_dispatch(t, o) ==
    LET v == validate_simulated_transaction(t, o)
        gas_params == IF o.gas_params_ok THEN Ok(<<>>) ELSE Err("VM_STARTUP_FAILURE")
    IN  IF ~v.res.ok
        THEN [next |-> "return", calls |-> v.calls, checked |-> v.res.err,
              meter |-> NoMeter, val |-> discard_error_vm_status(v.res.err)]
        ELSE IF ~gas_params.ok
        THEN [next |-> "return", calls |-> v.calls, checked |-> "ok",
              meter |-> NoMeter, val |-> discard_error_vm_status(gas_params.err)]
        ELSE IF t.payload \in {"Script", "ScriptFunction", "ModuleBundle"}
        THEN [next |-> "execute", calls |-> v.calls, checked |-> "ok",
              meter |-> AptosGasMeter_new(t.max_gas_amount)]
        ELSE [next |-> "return", calls |-> v.calls, checked |-> "ok",
              meter |-> AptosGasMeter_new(t.max_gas_amount),
              val |-> discard_error_vm_status("UNREACHABLE")]

RECURSIVE LogCalls(_, _)
LogCalls(steps, calls) ==
    IF calls = <<>> THEN steps
    ELSE LogCalls(Append(steps, Step(Head(calls), "", "")), Tail(calls))

Validate ==
    /\ pc = "validating"
    /\ \E o \in PrologueOutcomes :
          LET d == IF entry = "simulate_signed_transaction"
                   THEN simulate_and_dispatch(txn, o)
                   ELSE validate_and_dispatch(txn, o)
          IN  /\ gas_meter' = d.meter
              /\ hist' = [hist EXCEPT !.steps = LogCalls(@, d.calls),
                                      !.validation = d.checked]
              /\ IF d.next = "return"
                 THEN /\ ret' = Ok(d.val)
                      /\ session' = NoSession
                      /\ pc' = "returned"
                 ELSE /\ pc' = "executing"
                      /\ UNCHANGED <<ret, session>>
    /\ UNCHANGED <<state_view, outside_vars, block_vars, entry, txn, exec_result, gas_usage>>

\* a step of the payload executor ended as r: go on to `next`, or keep the
\* error and drop the session
PayloadStep(r, next) ==
    /\ gas_meter' = [gas_meter EXCEPT !.balance = r.m.balance]
    /\ IF r.ok
       THEN /\ session' = r.m.session
            /\ hist' = [hist EXCEPT !.steps = r.m.steps, !.gas_log = r.m.gas_log,
                                    !.bundle = r.m.bundle]
            /\ pc' = next
            /\ UNCHANGED exec_result
       ELSE /\ session' = NoSession
            /\ hist' = [hist EXCEPT !.steps = r.m.steps, !.gas_log = r.m.gas_log,
                                    !.bundle = r.m.bundle,
                                    !.dropped = r.m.session.writes,
                                    !.dropped_events = r.m.session.events]
            /\ exec_result' = Err(r.err)
            /\ pc' = "result"

ExecuteScriptOrScriptFunction ==
    /\ pc = "executing"
    /\ txn.payload \in {"Script", "ScriptFunction"}
    /\ \E r \in execute_script_or_script_function_body(Current, txn.payload) :
          PayloadStep(r, "resolving")
    /\ UNCHANGED <<state_view, outside_vars, block_vars, entry, txn, gas_usage, ret>>

ResolvePendingCodePublish ==
    /\ pc = "resolving"
    /\ \E r \in resolve_pending_code_publish(Current) : PayloadStep(r, "success_cleanup")
    /\ UNCHANGED <<state_view, outside_vars, block_vars, entry, txn, gas_usage, ret>>

ExecuteModules ==
    /\ pc = "executing"
    /\ txn.payload = "ModuleBundle"
    /\ \E b \in Bundles :
          \E r \in execute_modules_body(Current, b, "sender") :
             PayloadStep(r, "success_cleanup")
    /\ UNCHANGED <<state_view, outside_vars, block_vars, entry, txn, gas_usage, ret>>

\* a success cleanup that, when its epilogue fails, makes the Keep output of
\* the failure from the session of the attempt
SuccessCleanupKeepingSession ==
    /\ pc = "success_cleanup"
    /\ \E eo \in EpilogueOutcomes :
          LET r == success_transaction_cleanup(session, gas_meter.balance,
                                               txn.max_gas_amount, eo)
              kept == TransactionOutput_new(FinishWrites(session.writes), session.events,
                                            txn.max_gas_amount - gas_meter.balance,
                                            TransactionStatus_from(r.err))
          IN  /\ exec_result' = IF r.ok \/ is_discarded(TransactionStatus_from(r.err))
                                THEN r
                                ELSE Ok([vm_status |-> r.err, output |-> kept])
              /\ hist' = [hist EXCEPT
                             !.steps = Append(@, Step("success_epilogue", "", "")),
                             !.dropped = IF r.ok THEN @ ELSE session.writes,
                             !.dropped_events = IF r.ok THEN @ ELSE session.events]
    /\ session' = NoSession
    /\ pc' = "result"
    /\ UNCHANGED <<state_view, outside_vars, block_vars, entry, txn, gas_meter, gas_usage, ret>>

SuccessTransactionCleanup ==
    /\ pc = "success_cleanup"
    /\ \E eo \in EpilogueOutcomes :
          LET r == success_transaction_cleanup(session, gas_meter.balance,
                                               txn.max_gas_amount, eo)
          IN  /\ exec_result' = r
              /\ hist' = [hist EXCEPT
                             !.steps = Append(@, Step("success_epilogue", "", "")),
                             !.dropped = IF r.ok THEN @ ELSE session.writes,
                             !.dropped_events = IF r.ok THEN @ ELSE session.events]
    /\ session' = NoSession
    /\ pc' = "result"
    /\ UNCHANGED <<state_view, outside_vars, block_vars, entry, txn, gas_meter, gas_usage, ret>>

\* FinishAttempt without the is_discarded test: every error is cleaned up
FinishAttemptAlwaysCleaning ==
    /\ pc = "result"
    /\ gas_usage' = IF entry = "simulate_signed_transaction" THEN gas_usage
                     ELSE txn.max_gas_amount - gas_meter.balance
    /\ IF exec_result.ok
       THEN /\ ret' = Ok(exec_result.val)
            /\ pc' = "returned"
       ELSE /\ pc' = "failure_cleanup"
            /\ UNCHANGED ret
    /\ UNCHANGED <<state_view, outside_vars, block_vars, entry, txn, session, gas_meter,
                   exec_result,
                   hist>>

\* a match on the result that discards every failed transaction
match_result_discarding(res) ==
    IF res.ok THEN [next |-> "return", val |-> res.val]
    ELSE [next |-> "return", val |-> discard_error_vm_status(res.err)]

\* execute_user_transaction, `match result`: the output to return, or the
\* failure cleanup
match_result(res) ==
    IF res.ok THEN [next |-> "return", val |-> res.val]
    ELSE IF is_discarded(TransactionStatus_from(res.err))
    THEN [next |-> "return", val |-> discard_error_vm_status(res.err)]
    ELSE [next |-> "failure_cleanup"]

\* simulate_signed_transaction, `match result`
simulate_match_result(res) ==
    LET txn_status == TransactionStatus_from(IF res.ok THEN "EXECUTED" ELSE res.err)
    IN  IF res.ok THEN [next |-> "return", val |-> res.val]
        ELSE IF is_discarded(txn_status)
        THEN [next |-> "return", val |-> discard_error_vm_status(res.err)]
        ELSE [next |-> "failure_cleanup"]

\* execute_user_transaction / simulate_signed_transaction: what to do with
\* `result`
FinishAttempt ==
    /\ pc = "result"
    /\ gas_usage' = IF entry = "simulate_signed_transaction" THEN gas_usage
                     ELSE txn.max_gas_amount - gas_meter.balance
    /\ LET d == IF entry = "simulate_signed_transaction"
                THEN simulate_match_result(exec_result)
                ELSE match_result(exec_result)
       IN  IF d.next = "return"
           THEN /\ ret' = Ok(d.val)
                /\ pc' = "returned"
           ELSE /\ pc' = "failure_cleanup"
                /\ UNCHANGED ret
    /\ UNCHANGED <<state_view, outside_vars, block_vars, entry, txn, session, gas_meter,
                   exec_result,
                   hist>>

\* the failure branch of execute_user_transaction, the cleanup reading `storage`
FailedCleanupOn(storage) ==
    /\ pc = "failure_cleanup"
    /\ \E eo \in EpilogueOutcomes :
          LET e == RunEpilogue(new_session(Resolver), gas_meter.balance,
                               txn.max_gas_amount, eo.aborts, eo.abort_code)
          IN  /\ ret' = Ok(failed_transaction_cleanup_and_keep_vm_status(
                               exec_result.err, gas_meter.balance, txn.max_gas_amount,
                               storage, eo))
              /\ hist' = [hist EXCEPT
                             !.steps = @ \o <<Step("new_session", "", ""),
                                              Step("failure_epilogue", "", "")>>,
                             !.cleanups = @ + 1,
                             !.epilogue = IF e.ok THEN "ok" ELSE e.err]
    /\ pc' = "returned"
    /\ UNCHANGED <<state_view, outside_vars, block_vars, entry, txn, session, gas_meter,
                   exec_result,
                   gas_usage>>

\* a cleanup rooted at what the failed attempt left, not at the state before it
CleanupOnAttemptState == FailedCleanupOn(View(Resolver, hist.dropped))

FailedTransactionCleanup == FailedCleanupOn(Resolver)

\* execute_writeset_transaction from run_writeset_epilogue on
ExecuteWritesetEpilogue ==
    /\ pc = "writeset_epilogue"
    /\ \E o \in WriteSetEpilogueOutcomes :
          ret' = merge_with_epilogue(Resolver, exec_result.change_set,
                                     exec_result.reconfig, o)
    /\ pc' = "returned"
    /\ UNCHANGED <<state_view, outside_vars, block_vars, entry, txn, session, gas_meter,
                   exec_result,
                   gas_usage, hist>>

Next ==
    \/ ExecuteUserTransaction
    \/ ExecuteSystemTransaction
    \/ SimulateSignedTransaction
    \/ Validate
    \/ ExecuteScriptOrScriptFunction
    \/ ResolvePendingCodePublish
    \/ ExecuteModules
    \/ SuccessTransactionCleanup
    \/ FinishAttempt
    \/ FailedTransactionCleanup
    \/ ExecuteWritesetEpilogue

Spec == Init /\ [][Next]_vars

(***************************************************************************)
(* execute_block: the sequential strategy                                  *)
(***************************************************************************)
\* should_restart_execution
should_restart_execution(vm_output) == "new_epoch" \in Range(vm_output.events)

\* what execute_block_impl pushes for a transaction after a reconfiguration
RetryEntry ==
    [vm_status |-> "UNKNOWN_STATUS",
     output |-> TransactionOutput_new(<<>>, <<>>, 0, [class |-> "Retry", code |-> ""])]

\* an execute_block that leaves the discarded transactions out
KeepOnlyKept(pairs) ==
    LET kept == SelectSeq(pairs, LAMBDA p : ~is_discarded(p.output.status))
    IN  [i \in 1..Len(kept) |-> kept[i].output]

\* execute_block: the outputs without their VMStatus
KeepOutputs(pairs) == [i \in 1..Len(pairs) |-> pairs[i].output]

ExecuteBlock ==
    /\ pc = "idle"
    /\ ~(get_concurrency_level > 1)
    /\ entry' = "execute_block"
    /\ pc' = "block_loop"
    /\ data_cache' = state_view
    /\ UNCHANGED <<state_view, outside_vars, transactions, result, should_restart, block_ret, txn,
                   session, gas_meter, exec_result, gas_usage, ret, hist>>

\* execute_block_impl: a transaction that follows a reconfiguration
BlockRetry ==
    /\ pc = "block_loop"
    /\ Len(transactions) < MaxBlock
    /\ should_restart
    /\ \E t \in UserTxns \cup WriteSetTxns \cup OtherTxns :
          transactions' = Append(transactions, t)
    /\ result' = Append(result, RetryEntry)
    /\ UNCHANGED <<state_view, outside_vars, data_cache, should_restart, block_ret, entry, pc, txn,
                   session, gas_meter, exec_result, gas_usage, ret, hist>>

\* execute_block_impl: the next transaction goes to execute_single_transaction
BlockExecuteUser ==
    /\ pc = "block_loop"
    /\ Len(transactions) < MaxBlock
    /\ ~should_restart
    /\ \E t \in UserTxns :
          /\ transactions' = Append(transactions, t)
          /\ BeginUserTransaction(t)
    /\ UNCHANGED <<state_view, outside_vars, data_cache, result, should_restart, block_ret, entry>>

BlockExecuteSystem ==
    /\ pc = "block_loop"
    /\ Len(transactions) < MaxBlock
    /\ ~should_restart
    /\ \E t \in WriteSetTxns \cup OtherTxns :
          /\ transactions' = Append(transactions, t)
          /\ RunSystemTransaction(t)
    /\ UNCHANGED <<state_view, outside_vars, data_cache, result, should_restart, block_ret, entry>>

\* execute_block_impl after execute_single_transaction returned
push_result(r) ==
    /\ result' = Append(result, r.val)
    /\ data_cache' = IF is_discarded(r.val.output.status) THEN data_cache
                     ELSE ApplyWriteSet(data_cache, r.val.output.write_set)
    /\ should_restart' = should_restart_execution(r.val.output)

BlockPush ==
    /\ pc = "returned"
    /\ InBlock
    /\ IF ret.ok
       THEN /\ push_result(ret)
            /\ pc' = "block_loop"
            /\ UNCHANGED block_ret
       ELSE /\ block_ret' = Err(ret.err)
            /\ pc' = "block_done"
            /\ UNCHANGED <<result, data_cache, should_restart>>
    /\ UNCHANGED <<state_view, outside_vars, transactions, entry, txn, session, gas_meter,
                   exec_result, gas_usage, ret, hist>>

\* execute_block_impl returned Ok(result): execute_block returns the outputs
BlockFinish ==
    /\ pc = "block_loop"
    /\ block_ret' = Ok(KeepOutputs(result))
    /\ pc' = "block_done"
    /\ UNCHANGED <<state_view, outside_vars, data_cache, transactions, result,
                   should_restart, entry,
                   txn, session, gas_meter, exec_result, gas_usage, ret, hist>>

NextBlock ==
    \/ ExecuteBlock
    \/ BlockRetry
    \/ BlockExecuteUser
    \/ BlockExecuteSystem
    \/ BlockPush
    \/ BlockFinish
    \/ Validate
    \/ ExecuteScriptOrScriptFunction
    \/ ResolvePendingCodePublish
    \/ ExecuteModules
    \/ SuccessTransactionCleanup
    \/ FinishAttempt
    \/ FailedTransactionCleanup
    \/ ExecuteWritesetEpilogue

SpecBlock == Init /\ [][NextBlock]_vars

(***************************************************************************)
(* execute_block: the two strategies on one block.  The transactions here  *)
(* are deterministic: one read of the resolver, then a discard or one      *)
(* write.  The parallel strategy executes the transactions speculatively   *)
(* on at most concurrency_level workers against a versioned resolver,      *)
(* detects the reads that a later write of an earlier transaction made     *)
(* stale, and executes those transactions again.                           *)
(***************************************************************************)
BlockKeys == {"acct", "res"}

BlockTxns == [reads : BlockKeys, writes : BlockKeys, requires : {"any", "zero"}]

Blocks == UNION {[1..n -> BlockTxns] : n \in 0..MaxBlock}

\* one execution attempt: a function of the transaction and of what it read
execute_on(t, value) ==
    IF t.requires = "zero" /\ value # 0
    THEN [vm_status |-> "SEQUENCE_NUMBER_TOO_OLD",
          output |-> discard_error_output("SEQUENCE_NUMBER_TOO_OLD")]
    ELSE [vm_status |-> "EXECUTED",
          output |-> TransactionOutput_new(<<W(t.writes, value + 1)>>, <<>>, 0,
                                           [class |-> "Keep", code |-> "Success"])]

\* the sequential strategy: each transaction against the state view and the
\* write sets of the transactions kept before it
RECURSIVE execute_block_impl(_, _, _)
execute_block_impl(txns, cache, pairs) ==
    IF txns = <<>> THEN pairs
    ELSE LET r == execute_on(Head(txns), cache[Head(txns).reads])
         IN  execute_block_impl(
                 Tail(txns),
                 IF is_discarded(r.output.status) THEN cache
                 ELSE ApplyWriteSet(cache, r.output.write_set),
                 Append(pairs, r))

Max(S) == CHOOSE x \in S : \A y \in S : y <= x

\* the versioned resolver: what transaction i reads under key k is the write
\* of the nearest earlier transaction whose execution is published, else the
\* state view
VersionedRead(i, k) ==
    LET writers == {j \in 1..(i - 1) :
                       /\ versioned[j].status = "executed"
                       /\ ~is_discarded(versioned[j].output.status)
                       /\ k \in WsKeys(versioned[j].output.write_set)}
    IN  IF writers = {} THEN state_view[k]
        ELSE versioned[Max(writers)].output.write_set[1].value

Pending == [status |-> "pending", read |-> 0, output |-> NoOutput, incarnation |-> 0]

Executing == {i \in DOMAIN versioned : versioned[i].status = "executing"}

\* the read of transaction i is what the resolver gives now
ReadIsValid(i) == VersionedRead(i, strategy_block[i].reads) = versioned[i].read

\* execute_block, concurrency_level <= 1
ExecuteBlockSequential ==
    /\ strategy_pc = "idle"
    /\ ~(get_concurrency_level > 1)
    /\ \E block \in Blocks :
          /\ strategy_block' = block
          /\ strategy_ret' = Ok(KeepOutputs(execute_block_impl(block, state_view, <<>>)))
    /\ strategy_pc' = "done"
    /\ UNCHANGED <<versioned, outside_strategy>>

\* execute_block, concurrency_level > 1: ParallelAptosVM::execute_block
ExecuteBlockParallel ==
    /\ strategy_pc = "idle"
    /\ get_concurrency_level > 1
    /\ \E block \in Blocks :
          /\ strategy_block' = block
          /\ versioned' = [i \in 1..Len(block) |-> Pending]
    /\ strategy_pc' = "parallel"
    /\ UNCHANGED <<strategy_ret, outside_strategy>>

\* a free worker takes a transaction and reads the versioned resolver
ParallelRead ==
    /\ strategy_pc = "parallel"
    /\ Cardinality(Executing) < get_concurrency_level
    /\ \E i \in DOMAIN versioned :
          /\ versioned[i].status = "pending"
          /\ versioned' = [versioned EXCEPT
                              ![i].status = "executing",
                              ![i].read = VersionedRead(i, strategy_block[i].reads)]
    /\ UNCHANGED <<strategy_block, strategy_pc, strategy_ret, outside_strategy>>

\* the worker finishes the attempt and publishes its output
ParallelWrite ==
    /\ strategy_pc = "parallel"
    /\ \E i \in Executing :
          versioned' = [versioned EXCEPT
                           ![i].status = "executed",
                           ![i].output = execute_on(strategy_block[i],
                                                    versioned[i].read).output]
    /\ UNCHANGED <<strategy_block, strategy_pc, strategy_ret, outside_strategy>>

\* conflict detection: a published execution whose read is stale is
\* withdrawn, and the transaction is executed again
ParallelAbort ==
    /\ strategy_pc = "parallel"
    /\ \E i \in DOMAIN versioned :
          /\ versioned[i].status = "executed"
          /\ ~ReadIsValid(i)
          /\ versioned' = [versioned EXCEPT
                              ![i].status = "pending",
                              ![i].output = NoOutput,
                              ![i].incarnation = @ + 1]
    /\ UNCHANGED <<strategy_block, strategy_pc, strategy_ret, outside_strategy>>

\* a parallel strategy that returns as soon as every transaction has an
\* output
ParallelFinishUnvalidated ==
    /\ strategy_pc = "parallel"
    /\ \A i \in DOMAIN versioned : versioned[i].status = "executed"
    /\ strategy_ret' = Ok([i \in DOMAIN versioned |-> versioned[i].output])
    /\ strategy_pc' = "done"
    /\ UNCHANGED <<strategy_block, versioned, outside_strategy>>

\* every transaction is executed on a read that still holds: Ok(result)
ParallelFinish ==
    /\ strategy_pc = "parallel"
    /\ \A i \in DOMAIN versioned : versioned[i].status = "executed" /\ ReadIsValid(i)
    /\ strategy_ret' = Ok([i \in DOMAIN versioned |-> versioned[i].output])
    /\ strategy_pc' = "done"
    /\ UNCHANGED <<strategy_block, versioned, outside_strategy>>

NextStrategies ==
    \/ ExecuteBlockSequential
    \/ ExecuteBlockParallel
    \/ ParallelRead
    \/ ParallelWrite
    \/ ParallelAbort
    \/ ParallelFinish

\* the process after any calls of set_concurrency_level_once
InitAnyLevel ==
    /\ InitExecution
    /\ EXECUTION_CONCURRENCY_LEVEL \in
          {None} \cup {Some(Min(l, NumCpus)) : l \in ConcurrencyLevels}
    /\ NUM_PROOF_READING_THREADS = None
    /\ callers = [t \in Threads |-> Idle]
    /\ setting_calls = NoCalls
    /\ InitPrologue
    /\ InitRange
    /\ InitStrategies
    /\ InitCache
    /\ InitIter
    /\ InitFetcher
    /\ InitNamespace
    /\ InitPool

\* execute_block under the strategy that the concurrency level selects
SpecStrategies == InitAnyLevel /\ [][NextStrategies]_vars

\* the process-wide settings under any interleaving of their callers
SpecSettings == Init /\ [][NextSettings]_vars

\* a block-metadata transaction executed repeatedly on one state view
SpecPrologue == InitAnyPrologue /\ [][NextPrologue]_vars

\* the values of CompleteDataRange<T> its public constructors give
SpecRange == Init /\ [][NextRange]_vars

\* the calls on one ConcurrentTxnCache
SpecCache == Init /\ [][NextCache]_vars

\* one AccountTransactionVersionIter from its creation to its end
SpecIter == Init /\ [][NextIter]_vars

\* one call of create_management_configmap up to its config map
SpecNamespace == Init /\ [][NextNamespace]_vars

\* the setting of the thread count, the creation of an AsyncProofFetcher and
\* the proof reads on its pool
SpecPool == Init /\ [][NextPool]_vars

\* one AsyncProofFetcher with read_proof_async called beside a
\* finish_and_read_proofs in progress
SpecFetcherThreads == Init /\ [][NextFetcherThreads]_vars

\* the rounds of one AsyncProofFetcher
SpecFetcher == Init /\ [][NextFetcher]_vars

\* the same when every spawned proof read is run and the caller of
\* finish_and_read_proofs goes on whenever it can
FairSpecFetcher ==
    /\ SpecFetcher
    /\ WF_vars(ProcessProofRead)
    /\ WF_vars(FinishRecv)
    /\ WF_vars(FinishReturn)

(***************************************************************************)
(* Properties of execute_user_transaction                                  *)
(***************************************************************************)
KeepSuccess == [class |-> "Keep", code |-> "Success"]

\* the writes and events of the failure epilogue alone, run in a fresh
\* session on the storage the call was given
EpilogueAlone ==
    RunEpilogue(new_session(Resolver), gas_meter.balance, txn.max_gas_amount, FALSE, "")

\* C1: a Keep output that execute_user_transaction returns after the payload
\* execution failed holds exactly the writes and events of the failure
\* epilogue run alone in a fresh session on the pre-transaction storage;
\* nothing the failed attempt staged is in it.
FailureIsolation ==
    (/\ pc = "returned"
     /\ txn.kind = "UserTransaction"
     /\ hist.cleanups = 1
     /\ ret.val.output.status.class = "Keep")
    => /\ EpilogueAlone.ok
       /\ ret.val.output.write_set = FinishWrites(EpilogueAlone.val.writes)
       /\ ret.val.output.events = EpilogueAlone.val.events
       /\ WsKeys(ret.val.output.write_set) \subseteq {"acct"}
       /\ ret.val.output.events = <<>>

\* the attempt staged a resource, the sender's funds and an event, then failed
FailureIsolationWitness ==
    /\ pc = "returned"
    /\ txn.kind = "UserTransaction"
    /\ hist.cleanups = 1
    /\ ret.val.output.status.class = "Keep"
    /\ {W("res", 1), W("acct", 0)} \subseteq hist.dropped
    /\ hist.dropped_events # <<>>
    /\ Len(ret.val.output.write_set) = 1
    /\ ret.val.output.write_set[1].key = "acct"
    /\ ret.val.output.write_set[1].value > 0

\* C2: every output with a Discard status that execute_single_transaction
\* (through execute_user_transaction, process_writeset_transaction,
\* execute_writeset_transaction) or simulate_signed_transaction returns has
\* an empty write set and no events.
DiscardPurity ==
    (pc = "returned" /\ ret.ok /\ is_discarded(ret.val.output.status))
    => /\ ret.val.output.write_set = <<>>
       /\ ret.val.output.events = <<>>

\* a discard after the payload had staged writes and events
DiscardPurityWitness ==
    /\ pc = "returned"
    /\ ret.ok
    /\ is_discarded(ret.val.output.status)
    /\ txn.kind = "UserTransaction"
    /\ hist.dropped # {}
    /\ hist.dropped_events # <<>>
    /\ ret.val.output.write_set = <<>>

\* C3: gas_usage = max_gas_amount - balance lies in 0..max_gas_amount and is
\* the intrinsic charge plus the charges of the payload, the publish
\* resolution and the initializers (a charge the meter rejects takes what is
\* left); a Keep output reports it, and the failure cleanup charges nothing.
GasAccounting ==
    (/\ txn.kind = "UserTransaction"
     /\ pc \in {"failure_cleanup", "returned"}
     /\ gas_meter.created)
    => /\ gas_usage = txn.max_gas_amount - gas_meter.balance
       /\ 0 <= gas_usage
       /\ gas_usage <= txn.max_gas_amount
       /\ gas_usage = Min(txn.max_gas_amount, SumSeq(hist.gas_log))
       /\ hist.gas_log # <<>> => Head(hist.gas_log) = IntrinsicGas(TxnSize)
       /\ (pc = "returned" /\ ret.val.output.status.class = "Keep")
          => ret.val.output.gas_used = gas_usage

\* intrinsic charge, a charge by the payload, an abort: Keep, both billed
GasAccountingWitness ==
    /\ pc = "returned"
    /\ txn.kind = "UserTransaction"
    /\ hist.cleanups = 1
    /\ Len(hist.gas_log) = 2
    /\ hist.gas_log[2] > 0
    /\ ret.val.output.status = [class |-> "Keep", code |-> "MoveAbort"]
    /\ ret.val.output.gas_used = hist.gas_log[1] + hist.gas_log[2]

PrologueSteps ==
    {"new_session", "check_gas", "run_script_prologue", "run_module_prologue",
     "run_writeset_prologue"}

\* C4: when the validation of a user transaction fails, the call returns a
\* Discard with the validation's error and an empty write set; no gas meter
\* was created, nothing was charged, no payload and no epilogue ran.
PrologueFailureDiscards ==
    (txn.kind = "UserTransaction" /\ hist.validation \notin {"", "ok"})
    => /\ pc = "returned"
       /\ ret = Ok(discard_error_vm_status(hist.validation))
       /\ ret.val.output.status = [class |-> "Discard", code |-> hist.validation]
       /\ ret.val.output.write_set = <<>>
       /\ ~gas_meter.created
       /\ hist.gas_log = <<>>
       /\ gas_usage = 0
       /\ hist.cleanups = 0
       /\ \A i \in 1..Len(hist.steps) : hist.steps[i].op \in PrologueSteps

\* the on-chain prologue of a script transaction failed
PrologueFailureWitness ==
    /\ pc = "returned"
    /\ txn.kind = "UserTransaction"
    /\ txn.payload = "Script"
    /\ hist.validation = "SEQUENCE_NUMBER_TOO_OLD"
    /\ ret.val.vm_status = "SEQUENCE_NUMBER_TOO_OLD"
    /\ is_discarded(ret.val.output.status)

\* the change set of the write-set epilogue alone
WritesetEpilogueAlone ==
    run_writeset_epilogue(new_session(Resolver), exec_result.reconfig, FALSE).val

SharedKeys ==
    \/ WsKeys(exec_result.change_set.write_set)
          \cap StagedKeys(WritesetEpilogueAlone.writes) # {}
    \/ Range(exec_result.change_set.events) \cap Range(WritesetEpilogueAlone.events) # {}

\* C5: when execute_writeset_transaction returns an output and the payload's
\* change set shares a state key or an event key with the epilogue's, the
\* output is the empty Discard INVALID_WRITE_SET; a Keep(Success) output
\* comes only from disjoint change sets and holds all of both; there is no
\* output in between.
WriteSetDisjointness ==
    (/\ pc = "returned"
     /\ txn.kind = "WriteSet"
     /\ "change_set" \in DOMAIN exec_result
     /\ ret.ok)
    => /\ SharedKeys => ret.val.output = discard_error_output("INVALID_WRITE_SET")
       /\ ret.val.output.status = KeepSuccess
          => /\ ~SharedKeys
             /\ ret.val.output.write_set =
                   FinishWrites(WritesetEpilogueAlone.writes)
                      \o exec_result.change_set.write_set
             /\ ret.val.output.events =
                   exec_result.change_set.events \o WritesetEpilogueAlone.events
       /\ ret.val.output.status # KeepSuccess
          => ret.val.output = discard_error_output("INVALID_WRITE_SET")

\* the state keys are disjoint, the event keys are not
WriteSetDisjointnessWitness ==
    /\ pc = "returned"
    /\ txn.kind = "WriteSet"
    /\ "change_set" \in DOMAIN exec_result
    /\ ret.ok
    /\ exec_result.reconfig
    /\ exec_result.change_set.write_set = <<W("res", 1)>>
    /\ "new_epoch" \in Range(exec_result.change_set.events)
    /\ ret.val.vm_status = "INVALID_WRITE_SET"
    /\ ret.val.output.write_set = <<>>

\* a bundle that cannot be published whole: a blob does not deserialize, a
\* module exists already, or an init_module does not verify
MustFail(bundle, storage) ==
    \E i \in 1..Len(bundle) :
       \/ bundle[i] = "bad_blob"
       \/ storage[ModKey(i)] # 0
       \/ bundle[i] = "bad_init"

BundleKeys == {ModKey(i) : i \in 1..Len(hist.bundle)}

InitRuns == {i \in 1..Len(hist.steps) : hist.steps[i].op = "init_module"}

\* C6: a ModuleBundle transaction publishes all or nothing: when a module
\* does not deserialize, exists already, fails to publish or verify, or an
\* init_module does not verify or aborts, the output has none of the
\* bundle's modules and nothing an init_module wrote; an output with
\* Keep(Success) has every module, every initializer having run.
ModuleBundleAtomicity ==
    (/\ pc = "returned"
     /\ txn.kind = "UserTransaction"
     /\ txn.payload = "ModuleBundle"
     /\ hist.bundle # <<>>)
    => /\ MustFail(hist.bundle, Resolver) => ret.val.output.status # KeepSuccess
       /\ ret.val.output.status # KeepSuccess
          => WsKeys(ret.val.output.write_set) \cap (BundleKeys \cup {"res"}) = {}
       /\ ret.val.output.status = KeepSuccess
          => /\ BundleKeys \subseteq WsKeys(ret.val.output.write_set)
             /\ Cardinality(InitRuns)
                   = Cardinality({i \in 1..Len(hist.bundle) : hist.bundle[i] = "init"})

\* the first module was published and initialized, the second one's
\* init_module did not verify
ModuleBundleAtomicityWitness ==
    /\ pc = "returned"
    /\ txn.kind = "UserTransaction"
    /\ txn.payload = "ModuleBundle"
    /\ hist.bundle = <<"init", "bad_init">>
    /\ {W(ModKey(1), 1), W(ModKey(2), 1), W("res", 1)} \subseteq hist.dropped
    /\ InitRuns # {}
    /\ ret.val.output.status = [class |-> "Keep", code |-> "MiscellaneousError"]
    /\ WsKeys(ret.val.output.write_set) = {"acct"}

\* the phase a step belongs to: validation, payload, success epilogue,
\* failure cleanup
Phase(i) ==
    LET op == hist.steps[i].op
    IN  IF op = "failure_epilogue" THEN 4
        ELSE IF op = "new_session" THEN (IF i = 1 THEN 1 ELSE 4)
        ELSE IF op = "success_epilogue" THEN 3
        ELSE IF op \in PrologueSteps THEN 1
        ELSE 2

StepsOf(op) == {i \in 1..Len(hist.steps) : hist.steps[i].op = op}

OrderedSteps ==
    txn.kind = "UserTransaction"
    => /\ \A i, j \in 1..Len(hist.steps) : i < j => Phase(i) <= Phase(j)
       /\ Cardinality(StepsOf("success_epilogue")) <= 1
       /\ Cardinality(StepsOf("failure_epilogue")) = hist.cleanups
       /\ hist.cleanups <= 1
       /\ Cardinality(StepsOf("new_session")) = 1 + hist.cleanups
       /\ (pc = "failure_cleanup" \/ hist.cleanups = 1)
          => /\ ~exec_result.ok
             /\ TransactionStatus_from(exec_result.err).class = "Keep"
             /\ hist.validation = "ok"
             /\ hist.gas_log # <<>>
       /\ pc = "returned"
          => /\ ret.ok
             /\ ret.val.output.status.class \in {"Keep", "Discard"}
             /\ session = NoSession

\* C7: a call of execute_user_transaction ends in one terminal output,
\* Discard or Keep; its steps come in the order validation, payload, then
\* the success epilogue or the failure cleanup; the failure cleanup is entered
\* at most once and only on a Keep-classified error of the payload, the
\* publish resolution or the success epilogue; once the output is returned no
\* session is opened, no epilogue runs and nothing is charged.
TerminalOrder ==
    /\ []OrderedSteps
    /\ [][(pc = "returned" /\ txn.kind = "UserTransaction")
          => (/\ pc' = "returned"
              /\ UNCHANGED <<ret, session, gas_meter, hist, gas_usage>>)]_vars

\* the success epilogue failed and the failure cleanup followed
TerminalOrderWitness ==
    /\ pc = "returned"
    /\ txn.kind = "UserTransaction"
    /\ StepsOf("success_epilogue") # {}
    /\ StepsOf("failure_epilogue") # {}
    /\ ret.val.output.status.class = "Keep"

\* C8: when the failure epilogue itself fails, the result is the empty
\* Discard carrying the epilogue's error; the sender is charged nothing and
\* the Keep-classified status of the attempt is not in the output.
FailureEpilogueFailure ==
    (/\ pc = "returned"
     /\ txn.kind \in {"UserTransaction", "Simulated"}
     /\ hist.cleanups = 1
     /\ hist.epilogue # "ok")
    => /\ ret = Ok(discard_error_vm_status(hist.epilogue))
       /\ ret.val.output.status = [class |-> "Discard", code |-> hist.epilogue]
       /\ ret.val.output.write_set = <<>>
       /\ ret.val.output.gas_used = 0

\* an out-of-gas attempt whose failure epilogue did not go through
FailureEpilogueFailureWitness ==
    /\ pc = "returned"
    /\ txn.kind = "UserTransaction"
    /\ hist.cleanups = 1
    /\ exec_result = Err("OUT_OF_GAS")
    /\ hist.epilogue = "UNEXPECTED_ERROR_FROM_KNOWN_MOVE_FUNCTION"
    /\ ret.val.output.status =
          [class |-> "Discard", code |-> "UNEXPECTED_ERROR_FROM_KNOWN_MOVE_FUNCTION"]

\* C10: execute_single_transaction returns Err only for an internal
\* invariant violation; what the content of a user, write-set or waypoint
\* transaction causes comes back as Ok with a Keep or Discard output.
ErrOnlyForInvariantViolations ==
    (/\ pc = "returned"
     /\ txn.kind \in {"UserTransaction", "WriteSet", "WaypointWriteSet"}
     /\ ~ret.ok)
    => ret.err = "UNKNOWN_INVARIANT_VIOLATION_ERROR"

\* a write-set script that did not load made the call return Err
ErrFromWriteSetScript ==
    /\ pc = "returned"
    /\ txn.kind = "WriteSet"
    /\ ret = Err("LINKER_ERROR")

(***************************************************************************)
(* Properties of execute_block                                             *)
(***************************************************************************)
\* what the kind of a transaction tells about its output
OutputOf(t, out) ==
    \/ out.status.class = "Retry"
    \/ /\ t.kind = "InvalidSignature"
       /\ out = discard_error_output("INVALID_SIGNATURE")
    \/ /\ t.kind = "StateCheckpoint"
       /\ out = TransactionOutput_new(<<>>, <<>>, 0, KeepSuccess)
    \/ /\ t.kind = "BlockMetadata"
       /\ out.status = KeepSuccess
       /\ "new_block" \in Range(out.events)
    \/ /\ t.kind = "WaypointWriteSet"
       /\ IF is_discarded(out.status) THEN out = discard_error_output("INVALID_WRITE_SET")
          ELSE {"new_block", "new_epoch"} \subseteq Range(out.events)
    \/ /\ t.kind = "WriteSet"
       /\ out.gas_used = 0
       /\ IF is_discarded(out.status) THEN out.write_set = <<>>
          ELSE "acct" \in WsKeys(out.write_set)
    \/ /\ t.kind = "UserTransaction"
       /\ out.gas_used <= t.max_gas_amount
       /\ IF t.dup_signers THEN out = discard_error_output("SIGNERS_CONTAIN_DUPLICATES")
          ELSE IF is_discarded(out.status) THEN out.write_set = <<>>
          ELSE "acct" \in WsKeys(out.write_set)

\* C9: when execute_block returns Ok, there is one output for each input
\* transaction, the i-th output being that of the i-th transaction; a
\* discarded transaction has its entry, a Discard with an empty write set.
BlockOutputsAligned ==
    (pc = "block_done" /\ block_ret.ok)
    => /\ Len(block_ret.val) = Len(transactions)
       /\ Len(result) = Len(transactions)
       /\ \A i \in 1..Len(transactions) :
             /\ block_ret.val[i] = result[i].output
             /\ OutputOf(transactions[i], block_ret.val[i])
             /\ is_discarded(result[i].output.status)
                => /\ is_discarded(block_ret.val[i].status)
                   /\ block_ret.val[i].write_set = <<>>

\* a discarded transaction followed by one that was kept
BlockOutputsAlignedWitness ==
    /\ pc = "block_done"
    /\ block_ret.ok
    /\ Len(transactions) = 2
    /\ transactions[1].kind = "InvalidSignature"
    /\ transactions[2].kind = "UserTransaction"
    /\ Len(block_ret.val) = 2
    /\ block_ret.val[1] = discard_error_output("INVALID_SIGNATURE")
    /\ block_ret.val[2].status = KeepSuccess

(***************************************************************************)
(* Properties of the system transactions                                   *)
(***************************************************************************)
BothEvents(events) == {"new_block", "new_epoch"} \subseteq Range(events)

\* C11: a waypoint write set whose change set lacks the new-epoch or the
\* new-block event gives a Discard output, empty of writes and events; a
\* Keep(Success) output comes only with both events and then carries the
\* payload's write set and events unchanged, with gas_used 0.
WaypointWithoutEventsDiscards ==
    (/\ pc = "returned"
     /\ txn.kind = "WaypointWriteSet"
     /\ hist.seen.tag = "change_set")
    => /\ ~BothEvents(hist.seen.change_set.events)
          => /\ ret.ok
             /\ is_discarded(ret.val.output.status)
             /\ ret.val.output.write_set = <<>>
             /\ ret.val.output.events = <<>>
       /\ (ret.ok /\ ret.val.output.status = KeepSuccess)
          => /\ BothEvents(hist.seen.change_set.events)
             /\ ret.val.output.write_set = hist.seen.change_set.write_set
             /\ ret.val.output.events = hist.seen.change_set.events
             /\ ret.val.output.gas_used = 0

\* a waypoint change set with the new-block event only: the call returned
\* Err, there is no output
WaypointWithoutEpochReturnsErr ==
    /\ pc = "returned"
    /\ txn.kind = "WaypointWriteSet"
    /\ hist.seen.tag = "change_set"
    /\ hist.seen.change_set.events = <<"new_block">>
    /\ ret = Err("INVALID_WRITE_SET")

\* C12: when the block prologue function fails, process_block_prologue
\* returns Err and there is no output, neither Keep nor Discard; when the
\* call returns Ok, the function ran through and the output is
\* Keep(Success) with gas_used 0.
BlockPrologueFailureIsFatal ==
    (pc = "returned" /\ txn.kind = "BlockMetadata")
    => /\ hist.seen.result # "EXECUTED"
          => /\ ~ret.ok
             /\ DOMAIN ret = {"ok", "err"}
       /\ ret.ok
          => /\ hist.seen.result = "EXECUTED"
             /\ ret.val.vm_status = "EXECUTED"
             /\ ret.val.output.status = KeepSuccess
             /\ ret.val.output.gas_used = 0

\* the block prologue aborted and the call returned Err
BlockPrologueFailureWitness ==
    /\ pc = "returned"
    /\ txn.kind = "BlockMetadata"
    /\ hist.seen.result = "ABORTED"
    /\ ret = Err("UNEXPECTED_ERROR_FROM_KNOWN_MOVE_FUNCTION")

StrategyNotObservable ==
    strategy_pc = "done"
    => strategy_ret = Ok(KeepOutputs(execute_block_impl(strategy_block,
                                                        state_view, <<>>)))

\* the parallel strategy returned for a block in which an execution was
\* withdrawn on a stale read and repeated, and a transaction was discarded
StrategyNotObservableWitness ==
    /\ strategy_pc = "done"
    /\ get_concurrency_level > 1
    /\ Len(strategy_block) >= 2
    /\ \E i \in DOMAIN versioned : versioned[i].incarnation > 0
    /\ \E i \in DOMAIN versioned : is_discarded(versioned[i].output.status)
    /\ \E i \in DOMAIN versioned : ~is_discarded(versioned[i].output.status)

(***************************************************************************)
(* Properties of CompleteDataRange                                         *)
(***************************************************************************)
\* C20: every CompleteDataRange that new, from_len, from_genesis or the
\* deserialization gives has lowest <= highest, and its len() is Ok:
\* highest - lowest + 1 does not overflow the integer type.
RangeLengthExpressible ==
    (data_range # None /\ data_range.ok)
    => /\ data_range.val.lowest <= data_range.val.highest
       /\ CompleteDataRange_len(data_range.val).ok
       /\ data_range.val.highest - data_range.val.lowest + 1 <= IntMax

\* from_genesis on the largest value of the type: a range whose len() is Err
FromGenesisOfMaxHasNoLength ==
    /\ range_call # None
    /\ range_call.fn = "from_genesis"
    /\ range_call.highest = IntMax
    /\ data_range = Ok([lowest |-> 0, highest |-> IntMax])
    /\ CompleteDataRange_len(data_range.val) = DegenerateRangeError

\* what holds of the ranges of the checked constructors
CheckedRangeLengthExpressible ==
    (data_range # None /\ data_range.ok /\ range_call.fn # "from_genesis")
    => /\ data_range.val.lowest <= data_range.val.highest
       /\ CompleteDataRange_len(data_range.val).ok

\* C21: new(lowest, highest) returns Err exactly when lowest > highest or
\* highest - lowest + 1 overflows the integer type, and otherwise Ok with
\* those bounds; from_len(lowest, len) returns Err exactly when len = 0 or
\* lowest + len - 1 overflows, and otherwise a range that starts at lowest
\* and whose len() is len.
ConstructorsRejectExactly ==
    /\ (range_call # None /\ range_call.fn = "new")
       => IF \/ range_call.lowest > range_call.highest
             \/ range_call.highest - range_call.lowest + 1 > IntMax
          THEN data_range = DegenerateRangeError
          ELSE data_range = Ok([lowest |-> range_call.lowest,
                                highest |-> range_call.highest])
    /\ (range_call # None /\ range_call.fn = "from_len")
       => IF range_call.len = 0 \/ range_call.lowest + range_call.len - 1 > IntMax
          THEN data_range = DegenerateRangeError
          ELSE /\ data_range.ok
               /\ data_range.val.lowest = range_call.lowest
               /\ CompleteDataRange_len(data_range.val) = Ok(range_call.len)

\* new(0, MAX): the two ends are in order and the length overflows
NewOfWholeTypeIsErr ==
    /\ range_call # None
    /\ range_call.fn = "new"
    /\ range_call.lowest = 0
    /\ range_call.highest = IntMax
    /\ data_range = DegenerateRangeError

(***************************************************************************)
(* Properties of the ConcurrentTxnCache                                    *)
(***************************************************************************)
\* the items of the batch that no half of the cache held when they were
\* processed, in the order of the batch
Misses ==
    LET idx == SelectSeq([i \in 1..Len(filter_items) |-> i],
                         LAMBDA i : ~was_in_cache[i])
    IN  [k \in 1..Len(idx) |-> filter_items[idx[k]]]

\* C22: filter_and_update returns exactly the items that were not in the
\* cache when they were processed, in their input order; after it returns
\* every item of the batch is in the current half of the cache.
FilterReturnsTheMisses ==
    filter_pc = "returned"
    => /\ filter_ret = Misses
       /\ \A i \in 1..Len(filter_items) :
             hash(filter_items[i]) \in caches[current_idx + 1]

\* a batch of two chunks with the same element in both: the second chunk
\* came first, so the later item was returned and the earlier one dropped
FilterReturnsTheMissesWitness ==
    /\ filter_pc = "returned"
    /\ Len(filter_items) = MaxItems
    /\ filter_items[1] = filter_items[MaxItems]
    /\ was_in_cache[1]
    /\ ~was_in_cache[MaxItems]
    /\ filter_ret # <<>>
    /\ Len(filter_ret) < Len(filter_items)

\* what lru_update does get right: its first component says whether a half
\* held the hash, and the hash is in the current half afterwards
LruUpdateFindsAndKeeps ==
    \A element \in Elements :
       LET h == hash(element)
           u == lru_update(caches, current_idx, h)
       IN  /\ u.in_cache = (h \in caches[1] \cup caches[2])
           /\ h \in u.caches[current_idx + 1]
           /\ u.caches[2 - current_idx] = caches[2 - current_idx]

\* C34: lru_update(hash) returns as its first component whether the hash was
\* in the cache (either half), leaves the hash in the current half, and
\* returns as its second component the new size of the current half whenever
\* the hash was newly added to the current half, and None otherwise.
LruUpdateReportsNewSize ==
    \A element \in Elements :
       LET h == hash(element)
           u == lru_update(caches, current_idx, h)
       IN  /\ LruUpdateFindsAndKeeps
           /\ u.size = IF h \in caches[current_idx + 1] THEN None
                       ELSE Some(Cardinality(u.caches[current_idx + 1]))

\* the current half holds a hash, and lru_update of another one adds it and
\* returns no size
LruUpdateOfNewHashHasNoSize ==
    /\ caches[current_idx + 1] # {}
    /\ \E element \in Elements :
          LET u == lru_update(caches, current_idx, hash(element))
          IN  /\ hash(element) \notin caches[current_idx + 1]
              /\ Cardinality(u.caches[current_idx + 1])
                    = Cardinality(caches[current_idx + 1]) + 1
              /\ u.size = None

\* no half is ever cleared: the halves are never switched
HalvesNeverSwitch ==
    /\ current_idx = 0
    /\ caches[2] = {}

\* C37: after any sequence of insert and filter_and_update calls on a cache
\* created with cache_size = N no half holds more than N + 1 hashes: when an
\* insertion makes the current half exceed N the halves are switched.
HalvesAreBounded ==
    /\ Cardinality(caches[1]) <= CacheSize + 1
    /\ Cardinality(caches[2]) <= CacheSize + 1

\* the current half holds two hashes more than cache_size and is still the
\* first one
HalfGrowsPastItsBound ==
    /\ current_idx = 0
    /\ Cardinality(caches[1]) = CacheSize + 2

\* the places of the batch that hold the element, and the places of the
\* returned list that hold it
OccurrencesIn(items, element) == {i \in 1..Len(items) : items[i] = element}

\* C39: when the same element occurs several times in one filter_and_update
\* batch, in one chunk or in chunks of different workers, and was not in the
\* cache before the call, exactly one occurrence is returned and the others
\* are filtered out, whatever the interleaving of the workers.
OneOccurrenceIsReturned ==
    filter_pc = "returned"
    => \A element \in Elements :
          (/\ Cardinality(OccurrencesIn(filter_items, element)) >= 2
           /\ hash(element) \notin cache_at_call)
          => Cardinality(OccurrencesIn(filter_ret, element)) = 1

\* a batch of MaxItems times the same new element over two chunks: the
\* worker of the second chunk came first, and its occurrence is the one
\* returned
OneOccurrenceIsReturnedWitness ==
    /\ filter_pc = "returned"
    /\ Len(filter_items) = MaxItems
    /\ \A i \in 1..MaxItems : filter_items[i] = filter_items[1]
    /\ hash(filter_items[1]) \notin cache_at_call
    /\ ~was_in_cache[MaxItems]
    /\ chunks[Len(chunks)].ret = <<filter_items[1]>>
    /\ filter_ret = <<filter_items[1]>>

\* the same element twice in one chunk, new to the cache: the first of the
\* two is returned
OneOccurrenceInOneChunkWitness ==
    /\ filter_pc = "returned"
    /\ Len(filter_items) = ChunkSize
    /\ filter_items[1] = filter_items[ChunkSize]
    /\ hash(filter_items[1]) \notin cache_at_call
    /\ ~was_in_cache[1]
    /\ filter_ret = <<filter_items[1]>>

(***************************************************************************)
(* Properties of the AccountTransactionVersionIter                         *)
(***************************************************************************)
\* C23: the iterator of get_account_transaction_version_iter(address,
\* min_seq_num, num_versions, ledger_version) yields only entries of that
\* address, at most num_versions of them, with sequence numbers in
\* [min_seq_num, min_seq_num + num_versions), each one more than the
\* previous, with versions strictly increasing and all <= ledger_version;
\* it yields an error instead of an item when it meets a gap in the
\* sequence numbers or a non-increasing version; the creation fails if
\* min_seq_num + num_versions overflows.
IterYieldsContiguousVersions ==
    iter # None
    => /\ (iter_call.min_seq_num + iter_call.num_versions > U64Max) => ~iter.ok
       /\ Len(yielded) <= iter_call.num_versions
       /\ \A i \in 1..Len(yielded) :
             /\ yielded[i].address = iter_call.address
             /\ yielded[i].seq_num >= iter_call.min_seq_num
             /\ yielded[i].seq_num < iter_call.min_seq_num + iter_call.num_versions
             /\ yielded[i].version <= iter_call.ledger_version
             /\ i > 1 => /\ yielded[i].seq_num = yielded[i - 1].seq_num + 1
                         /\ yielded[i].version > yielded[i - 1].version
       /\ (/\ last_next # None
           /\ last_next.entry # None
           /\ last_next.entry.value.address = iter_call.address
           /\ last_next.entry.value.seq_num
                 < iter_call.min_seq_num + iter_call.num_versions
           /\ last_next.given > 0
           /\ \/ last_next.entry.value.seq_num
                    # yielded[last_next.given].seq_num + 1
              \/ last_next.entry.value.version
                    <= yielded[last_next.given].version)
          => ~last_next.ret.ok

\* two items were yielded, then an entry with the next sequence number and
\* a version that is not higher: an error
IterYieldsContiguousVersionsWitness ==
    /\ Len(yielded) = 2
    /\ last_next # None
    /\ last_next.entry # None
    /\ last_next.entry.value.seq_num = yielded[2].seq_num + 1
    /\ last_next.entry.value.version <= yielded[2].version
    /\ ~last_next.ret.ok

(***************************************************************************)
(* Properties of the AsyncProofFetcher                                     *)
(***************************************************************************)
\* finish_and_read_proofs returned a proof under the hash of each state key
\* asked for in the round, and of no other; the counter is 0, the channel
\* is empty and no read is left
RoundIsComplete ==
    /\ fetcher_pc = "returned"
    /\ DOMAIN proof_cache.value
          = {StateKey_hash(r.state_key) : r \in requested}
    /\ \A r \in requested :
          \E q \in requested :
             /\ q.state_key = r.state_key
             /\ proof_cache.value[StateKey_hash(r.state_key)]
                   = get_state_proof_by_version(q.state_key, q.version)
    /\ num_proofs_to_read = 0
    /\ channel = <<>>
    /\ spawned = <<>>

\* C24: with no read_proof_async running beside it and every spawned proof
\* read completing, finish_and_read_proofs eventually returns a map with
\* the proof, under the hash of its state key, of every state key given to
\* read_proof_async since the previous finish_and_read_proofs, and leaves
\* num_proofs_to_read at 0 and the channel empty.
FinishEventuallyReturnsProofs == (fetcher_pc = "recv") ~> RoundIsComplete

\* a round with both state keys has returned
FinishEventuallyReturnsProofsWitness ==
    /\ RoundIsComplete
    /\ Cardinality(requested) = MaxReads
    /\ Cardinality(DOMAIN proof_cache.value) = 2

\* C38: whenever no finish_and_read_proofs is in progress and every spawned
\* proof read has completed, the channel holds num_proofs_to_read proofs, for
\* every interleaving of read_proof_async calls with a finish_and_read_proofs
\* on another thread: no proof is lost, left for a later round or waited for
\* forever.
ChannelHoldsWhatIsCounted ==
    (fetcher_pc # "recv" /\ spawned = <<>>) => Len(channel) = num_proofs_to_read

\* finish_and_read_proofs has returned with the counter at 0 and a proof,
\* asked for while it was receiving, is left in the channel
ProofLeftBehind ==
    /\ fetcher_pc = "returned"
    /\ spawned = <<>>
    /\ num_proofs_to_read = 0
    /\ Len(channel) = 1
    /\ Cardinality(requested) = 2
    /\ Cardinality(DOMAIN proof_cache.value) = 1

(***************************************************************************)
(* Properties of create_namespace                                          *)
(***************************************************************************)
\* C25: create_namespace returns Ok when the namespace was created or the
\* API answered 409, FinalError when the API answered 401, and
\* RetryableError for every other failure to create the namespace;
\* create_management_configmap repeats create_namespace only after a
\* RetryableError and stops at the first Ok or FinalError.
CreateNamespaceClassifiesFailures ==
    /\ \A i \in 1..Len(attempts) :
          LET a == attempts[i].answer
          IN  attempts[i].ret =
                 IF a.kind = "Ok" \/ (a.kind = "KubeError::Api" /\ a.code = 409)
                 THEN Ok("unit")
                 ELSE IF a.kind = "KubeError::Api" /\ a.code = 401
                 THEN Err("FinalError")
                 ELSE Err("RetryableError")
    /\ \A i \in 1..(Len(attempts) - 1) : attempts[i].ret = Err("RetryableError")

\* the request got no answer from the API, create_namespace returned Ok and
\* create_management_configmap goes on to the config map
UnansweredCreateIsOk ==
    /\ configmap_pc = "configmap"
    /\ attempts # <<>>
    /\ attempts[Len(attempts)].answer.kind = "KubeError::Other"
    /\ attempts[Len(attempts)].ret = Ok("unit")

\* what holds of the answers of the API: 409 is Ok, 401 is a FinalError,
\* any other error response is a RetryableError, and only a RetryableError
\* is followed by another call
ApiErrorsAreClassified ==
    /\ \A i \in 1..Len(attempts) :
          LET a == attempts[i].answer
          IN  a.kind # "KubeError::Other"
              => attempts[i].ret =
                    IF a.kind = "Ok" \/ a.code = 409 THEN Ok("unit")
                    ELSE IF a.code = 401 THEN Err("FinalError")
                    ELSE Err("RetryableError")
    /\ \A i \in 1..(Len(attempts) - 1) : attempts[i].ret = Err("RetryableError")

(***************************************************************************)
(* Properties of the publish requests of a session                         *)
(***************************************************************************)
\* the success cleanup of an attempt ends with an output
EpilogueSucceeds ==
    /\ pc = "success_cleanup"
    /\ pc' = "result"
    /\ exec_result'.ok

\* C26: whatever the payload kind, a publish request registered while the
\* payload or an init_module ran is extracted and resolved before the success
\* epilogue: the session of a transaction that reaches Keep(Success) holds no
\* publish request when its success epilogue runs.
NoRequestAtSuccessEpilogue ==
    [][EpilogueSucceeds => session.publish_request = NoRequest]_vars

\* a module bundle was published, one of its init_module runs registered a
\* publish request, and the session is handed to the success cleanup
BundleInitLeavesRequest ==
    /\ pc = "success_cleanup"
    /\ txn.payload = "ModuleBundle"
    /\ session.publish_request # NoRequest
    /\ \E i \in 1..Len(hist.steps) : hist.steps[i].op = "init_module"

\* the requests registered by the payload of a script or an entry function are
\* resolved: the session has none after resolve_pending_code_publish unless an
\* init_module of the resolved bundle registered one
PayloadRequestIsResolved ==
    (pc = "success_cleanup" /\ txn.payload \in {"Script", "ScriptFunction"}
        /\ session.publish_request # NoRequest)
    => \E i \in 1..Len(hist.steps) :
          /\ hist.steps[i].op = "extract_publish_request"
          /\ \E j \in (i+1)..Len(hist.steps) : hist.steps[j].op = "init_module"

\* a script registered a request, it was resolved, and an init_module of the
\* resolved bundle registered another one, which nobody extracts
ResolvedInitLeavesRequest ==
    /\ pc = "success_cleanup"
    /\ txn.payload \in {"Script", "ScriptFunction"}
    /\ session.publish_request # NoRequest

\* what resolve_pending_code_publish adds to the steps of attempt m when it
\* ends as r
ResolveSteps(m, r) == SubSeq(r.m.steps, Len(m.steps) + 1, Len(r.m.steps))

\* the steps of resolving request req are in order: the extraction; nothing
\* more when the bundle does not deserialize or its names are not the
\* expected ones; otherwise one publish call to the destination, with the
\* compatibility check the request asks for, then only init_module runs
\* signed by the destination
ResolvesInOrder(m, req, r) ==
    LET new == ResolveSteps(m, r)
    IN  /\ Len(new) >= 1
        /\ new[1].op = "extract_publish_request"
        /\ r.m.session.publish_request = NoRequest
               \/ \E k \in 3..Len(new) : new[k].op = "init_module"
        /\ IF \E i \in 1..Len(req.bundle) : req.bundle[i] = "bad_blob"
           THEN ~r.ok /\ r.err = "CODE_DESERIALIZATION_ERROR" /\ Len(new) = 1
           ELSE IF BundleNames(req.bundle) # req.expected_modules
           THEN ~r.ok /\ r.err = "VERIFICATION_ERROR" /\ Len(new) = 1
           ELSE /\ Len(new) >= 2
                /\ new[2].op = (IF req.check_compat THEN "publish" ELSE "publish_relax")
                /\ new[2].a = req.destination
                /\ \A k \in 3..Len(new) :
                      new[k].op = "init_module" /\ new[k].b = req.destination

\* C27: resolve_pending_code_publish deserializes the whole bundle, then
\* compares its names with expected_modules, then makes exactly one publish
\* call to the destination (strict when check_compat, relaxed otherwise), then
\* runs the initializers; a name mismatch is a VERIFICATION_ERROR with no
\* publish and no init_module, a deserialization failure is a
\* CODE_DESERIALIZATION_ERROR whatever the names, and without a pending request
\* it succeeds without effect.
ResolveFollowsTheOrder ==
    pc = "resolving" =>
        IF session.publish_request = NoRequest
        THEN resolve_pending_code_publish(Current) = {Pass(Current)}
        ELSE \A req \in PublishRequests :
                LET taken == Log([Current EXCEPT !.session.publish_request = NoRequest],
                                 "extract_publish_request", "", "")
                IN  \A r \in resolve_publish_request(taken, req) :
                       ResolvesInOrder(Current, req, r)

\* a request was resolved to the end: extracted, published without the
\* compatibility check to an address other than the sender, and an
\* initializer ran
ResolveFollowsTheOrderWitness ==
    /\ pc = "success_cleanup"
    /\ \E i \in 1..Len(hist.steps) :
          /\ hist.steps[i].op = "extract_publish_request"
          /\ i + 2 <= Len(hist.steps)
          /\ hist.steps[i + 1].op = "publish_relax"
          /\ hist.steps[i + 1].a = "other"
          /\ hist.steps[i + 2].op = "init_module"

\* a request whose names are not those of its bundle ended the attempt with
\* a VERIFICATION_ERROR right after the extraction
MismatchIsRejectedWitness ==
    /\ pc = "result"
    /\ ~exec_result.ok
    /\ exec_result.err = "VERIFICATION_ERROR"
    /\ Len(hist.steps) >= 1
    /\ hist.steps[Len(hist.steps)].op = "extract_publish_request"

(***************************************************************************)
(* Properties of the merged output of a write-set transaction              *)
(***************************************************************************)
\* a write-set transaction returned the Keep(Success) output merged from the
\* payload's change set and the epilogue's
WritesetMerged ==
    /\ pc = "returned"
    /\ txn.kind = "WriteSet"
    /\ "change_set" \in DOMAIN exec_result
    /\ ret.ok
    /\ ret.val.output.status = KeepSuccess

PayloadKeys == WsKeys(exec_result.change_set.write_set)

WritesetEpilogueKeys == StagedKeys(WritesetEpilogueAlone.writes)

\* the merged output but for the order of its writes: the payload's events,
\* then the epilogue's; each key of either change set once; no gas used
MergedOutputHoldsBoth ==
    WritesetMerged =>
       LET out == ret.val.output
       IN  /\ out.events = exec_result.change_set.events \o WritesetEpilogueAlone.events
           /\ WsKeys(out.write_set) = PayloadKeys \cup WritesetEpilogueKeys
           /\ Cardinality(WsKeys(out.write_set)) = Len(out.write_set)
           /\ out.gas_used = 0
           /\ ret.val.vm_status = "EXECUTED"

\* C28: in the merged output of a successful write-set transaction every
\* write of the payload's change set precedes every write of the epilogue's,
\* every payload event precedes every epilogue event, each key of either
\* change set is there once, gas_used is 0 and the status is Keep(Success).
MergedOutputPayloadFirst ==
    WritesetMerged =>
       LET out == ret.val.output
       IN  /\ MergedOutputHoldsBoth
           /\ \A i, j \in 1..Len(out.write_set) :
                 (out.write_set[i].key \in PayloadKeys
                    /\ out.write_set[j].key \in WritesetEpilogueKeys) => i < j

\* a merged output whose first write is the epilogue's write of the sender's
\* account and whose last write is the payload's
MergedOutputEpilogueFirst ==
    /\ WritesetMerged
    /\ Len(ret.val.output.write_set) >= 2
    /\ ret.val.output.write_set[1].key \in WritesetEpilogueKeys
    /\ ret.val.output.write_set[Len(ret.val.output.write_set)].key \in PayloadKeys
    /\ exec_result.change_set.events # <<>>
    /\ WritesetEpilogueAlone.events # <<>>

(***************************************************************************)
(* Properties of run_prologue_with_payload                                 *)
(***************************************************************************)
PrologueOps == {"run_script_prologue", "run_module_prologue", "run_writeset_prologue"}

PrologueRuns == {i \in 1..Len(hist.steps) : hist.steps[i].op \in PrologueOps}

\* run_prologue_with_payload was called for the transaction and has returned
PrologueWasRun ==
    /\ txn.kind \in {"UserTransaction", "Simulated"}
    /\ hist.validation \notin {"", "SIGNERS_CONTAIN_DUPLICATES"}

GasCheckFailed == hist.validation = "MAX_GAS_UNITS_BELOW_MIN_TRANSACTION_GAS_UNITS"

\* C29: run_prologue_with_payload checks the gas first for a Script, an
\* EntryFunction and a ModuleBundle payload and runs the on-chain prologue
\* only if the check passed: the script prologue for the first two, the
\* module prologue for a bundle; for a WriteSet payload it makes no gas check
\* and runs the writeset prologue only.  Every call runs exactly one
\* prologue, or none when the gas check fails.
PrologueFollowsGasCheck ==
    PrologueWasRun =>
       /\ Cardinality(PrologueRuns) = (IF GasCheckFailed THEN 0 ELSE 1)
       /\ IF txn.payload = "WriteSet"
          THEN /\ StepsOf("check_gas") = {}
               /\ ~GasCheckFailed
               /\ PrologueRuns = StepsOf("run_writeset_prologue")
          ELSE /\ Cardinality(StepsOf("check_gas")) = 1
               /\ \A i \in StepsOf("check_gas") : \A j \in PrologueRuns : i < j
               /\ PrologueRuns = StepsOf(IF txn.payload = "ModuleBundle"
                                          THEN "run_module_prologue"
                                          ELSE "run_script_prologue")

\* a module bundle passed the gas check and its module prologue has run
PrologueFollowsGasCheckWitness ==
    /\ PrologueWasRun
    /\ txn.payload = "ModuleBundle"
    /\ StepsOf("check_gas") # {}
    /\ StepsOf("run_module_prologue") # {}

\* the gas check of a script failed and no prologue has run
FailedGasCheckWitness ==
    /\ PrologueWasRun
    /\ txn.payload = "Script"
    /\ GasCheckFailed
    /\ StepsOf("check_gas") # {}
    /\ PrologueRuns = {}

\* a WriteSet payload went through the writeset prologue without a gas check
WriteSetPrologueWitness ==
    /\ PrologueWasRun
    /\ txn.payload = "WriteSet"
    /\ StepsOf("run_writeset_prologue") # {}

(***************************************************************************)
(* Properties of the success path                                          *)
(***************************************************************************)
\* the transaction went through execute_user_transaction's payload executor
ThroughPayloadExecutor == txn.kind \in {"UserTransaction", "Simulated"}

\* the success epilogue ran on the session and the session became an output
SuccessEpilogueSucceeded ==
    /\ ThroughPayloadExecutor
    /\ "ok" \in DOMAIN exec_result
    /\ exec_result.ok

\* the session of the attempt after the success epilogue has debited the gas
\* used, by the meter's balance, from the sender's account
SessionAfterEpilogue ==
    Put(session.writes, "acct",
        View(session.storage, session.writes)["acct"]
           - (txn.max_gas_amount - gas_meter.balance))

\* the step of the success cleanup: one success epilogue, and the output, if
\* there is one, is the session that executed the payload with the
\* epilogue's debit, Keep(Success), Executed
SuccessCleanupStep ==
    (ThroughPayloadExecutor /\ pc = "success_cleanup" /\ pc' = "result")
    => /\ hist'.steps = Append(hist.steps, Step("success_epilogue", "", ""))
       /\ Cardinality({i \in 1..Len(hist'.steps) :
                          hist'.steps[i].op = "success_epilogue"}) = 1
       /\ gas_meter' = gas_meter
       /\ exec_result'.ok
          => /\ exec_result'.val.vm_status = "EXECUTED"
             /\ exec_result'.val.output.status = KeepSuccess
             /\ exec_result'.val.output.write_set = FinishWrites(SessionAfterEpilogue)
             /\ \A w \in session.writes :
                   w.key # "acct" => w \in Range(exec_result'.val.output.write_set)
             /\ "acct" \in WsKeys(exec_result'.val.output.write_set)
             /\ exec_result'.val.output.events = session.events
             /\ exec_result'.val.output.gas_used
                   = txn.max_gas_amount - gas_meter.balance

\* once the success epilogue has succeeded its output is what the call
\* returns, and no failure epilogue runs
SuccessOutputIsReturned ==
    SuccessEpilogueSucceeded
    => /\ Cardinality(StepsOf("success_epilogue")) = 1
       /\ StepsOf("failure_epilogue") = {}
       /\ hist.cleanups = 0
       /\ pc = "returned"
          => /\ ret = Ok(exec_result.val)
             /\ ret.val.vm_status = "EXECUTED"
             /\ ret.val.output.status = KeepSuccess

\* C30 (amended): when prologue, payload execution and publish resolution all
\* succeed, the success epilogue runs exactly once, in the session that
\* executed the payload, with the gas meter's balance at that moment; when
\* the epilogue and the conversion of the session succeed too, the output
\* holds the payload's and the epilogue's writes and events, has status
\* Keep(Success), is returned with VMStatus Executed, and the failure epilogue
\* is never run.
SuccessPathKeepsSuccess ==
    /\ []SuccessOutputIsReturned
    /\ [][SuccessCleanupStep]_vars

\* a payload that staged a resource and an event and was charged went
\* through the success epilogue, and its output was returned
SuccessPathKeepsSuccessWitness ==
    /\ SuccessEpilogueSucceeded
    /\ pc = "returned"
    /\ ret.val.output.status = KeepSuccess
    /\ ret.val.output.gas_used > 0
    /\ {"acct", "res"} \subseteq WsKeys(ret.val.output.write_set)
    /\ ret.val.output.events # <<>>

\* C30 as stated: whenever prologue, payload execution and publish
\* resolution succeeded (the success epilogue was run), the output is
\* Keep(Success) with VMStatus Executed and no failure epilogue has run.
SuccessEpilogueAlwaysKeeps ==
    (ThroughPayloadExecutor /\ pc = "returned" /\ StepsOf("success_epilogue") # {})
    => /\ ret.val.output.status = KeepSuccess
       /\ ret.val.vm_status = "EXECUTED"
       /\ StepsOf("failure_epilogue") = {}

(***************************************************************************)
(* Properties of the failure path                                          *)
(***************************************************************************)
\* the attempt of a user transaction ended with a Keep-classified error
KeepClassifiedFailure ==
    /\ txn.kind = "UserTransaction"
    /\ "ok" \in DOMAIN exec_result
    /\ ~exec_result.ok
    /\ ~is_discarded(TransactionStatus_from(exec_result.err))

\* after a Keep-classified failure: one failure epilogue, and a Keep output
\* reports the consumption the epilogue debited, that of the meter's balance
FailureBilledFromTheMeter ==
    (KeepClassifiedFailure /\ pc = "returned")
    => /\ hist.cleanups = 1
       /\ Cardinality(StepsOf("failure_epilogue")) = 1
       /\ ret.val.output.status.class = "Keep"
          => /\ ret.val.output.gas_used = txn.max_gas_amount - gas_meter.balance
             /\ ret.val.output.write_set
                   = <<W("acct", Resolver["acct"] - ret.val.output.gas_used)>>

\* from the failure to the output nothing is asked of the meter
MeterRestsAfterFailure ==
    (KeepClassifiedFailure /\ pc \in {"result", "failure_cleanup"})
    => /\ gas_meter' = gas_meter
       /\ hist'.gas_log = hist.gas_log

\* C31: on every Keep-classified failure of a user transaction the failure
\* epilogue is invoked exactly once with the gas meter's balance as of the
\* failure, and the output's gas_used is computed from the same balance: the
\* meter is not charged between the failure and the output, so the amount
\* the epilogue debits and the gas_used of the output are the same.
FailureChargesWhatItReports ==
    /\ []FailureBilledFromTheMeter
    /\ [][MeterRestsAfterFailure]_vars

\* a payload that was charged and aborted: the sender's account is debited
\* the gas the output reports
FailureChargesWhatItReportsWitness ==
    /\ KeepClassifiedFailure
    /\ pc = "returned"
    /\ ret.val.output.status.class = "Keep"
    /\ ret.val.output.gas_used = 2
    /\ ret.val.output.write_set = <<W("acct", Resolver["acct"] - 2)>>

(***************************************************************************)
(* Properties of execute_module_initialization                             *)
(***************************************************************************)
\* the first module of the bundle whose init_module does not verify, or
\* Len(bundle) + 1
FirstUnverified(bundle) ==
    IF \E i \in 1..Len(bundle) : bundle[i] = "bad_init"
    THEN CHOOSE i \in 1..Len(bundle) :
            /\ bundle[i] = "bad_init"
            /\ \A j \in 1..(i - 1) : bundle[j] # "bad_init"
    ELSE Len(bundle) + 1

\* the modules with a verified init_module before the first unverified one,
\* in bundle order
DueInitializers(bundle) ==
    SelectSeq([i \in 1..(FirstUnverified(bundle) - 1) |-> i],
              LAMBDA i : bundle[i] = "init")

\* execute_module_initialization on attempt m ended as r: it ran a prefix of
\* the due initializers, each once with the signer alone; all of them when it
\* succeeded or found an unverified init_module; it stopped at the first
\* initializer that failed
InitializesInOrder(m, bundle, signer, r) ==
    LET new == ResolveSteps(m, r)
        due == DueInitializers(bundle)
    IN  /\ Len(new) <= Len(due)
        /\ \A k \in 1..Len(new) : new[k] = Step("init_module", ModKey(due[k]), signer)
        /\ r.ok => /\ Len(new) = Len(due)
                   /\ FirstUnverified(bundle) = Len(bundle) + 1
        /\ ~r.ok => IF r.err = "VERIFICATION_ERROR"
                    THEN /\ Len(new) = Len(due)
                         /\ FirstUnverified(bundle) <= Len(bundle)
                    ELSE Len(new) >= 1

\* the signer of every init_module run so far: the sender for a ModuleBundle
\* payload, the destination of the publish call before it otherwise
SignerOfInitializers ==
    \A i \in StepsOf("init_module") :
       IF txn.payload = "ModuleBundle"
       THEN hist.steps[i].b = "sender"
       ELSE \E j \in 1..(i - 1) :
               /\ hist.steps[j].op \in {"publish", "publish_relax"}
               /\ hist.steps[j].a = hist.steps[i].b
               /\ \A k \in (j + 1)..(i - 1) : hist.steps[k].op = "init_module"

\* C32: execute_module_initialization goes through the modules in bundle
\* order: a module without a loadable init_module is skipped; an init_module
\* that loads but does not verify fails the step with VERIFICATION_ERROR
\* without running it or any later initializer; otherwise init_module runs
\* exactly once with a single signer, the sender for a ModuleBundle payload
\* and the destination for a publish request; the first failing initializer
\* stops the loop.
InitializersRunInBundleOrder ==
    /\ SignerOfInitializers
    /\ (pc = "executing" /\ txn.payload = "ModuleBundle")
       => \A bundle \in {b \in AllBundles : deserialize_module_bundle(Current, b).ok} :
             \A signer \in {"sender", "other"} :
                \A r \in execute_module_initialization(Current, bundle, signer, 1) :
                   InitializesInOrder(Current, bundle, signer, r)

\* the first module of a bundle was initialized with the sender as signer,
\* the init_module of the second did not verify
InitializersRunInBundleOrderWitness ==
    /\ pc = "result"
    /\ txn.payload = "ModuleBundle"
    /\ hist.bundle = <<"init", "bad_init">>
    /\ ~exec_result.ok
    /\ exec_result.err = "VERIFICATION_ERROR"
    /\ hist.steps[Len(hist.steps)] = Step("init_module", ModKey(1), "sender")

(***************************************************************************)
(* Properties of the pool of the AsyncProofFetcher                         *)
(***************************************************************************)
\* the pool has the 256 threads AsyncProofFetcher::new asks for, whatever the
\* setting
PoolHasItsOwnSize ==
    pool # None => /\ pool.value = 256
                   /\ Len(running) <= 256

\* C33: the pool of the AsyncProofFetcher is sized by the process-wide
\* setting: a fetcher created when get_num_proof_reading_threads() returns n
\* runs at most n proof reads at the same time.
PoolSizedBySetting ==
    pool # None => Len(running) <= threads_at_new.value

\* the setting was 1 when the fetcher was created, and two proof reads are
\* running
TwoReadsOnOneThreadSetting ==
    /\ NUM_PROOF_READING_THREADS = Some(1)
    /\ pool # None
    /\ threads_at_new = Some(1)
    /\ Len(running) = 2

(***************************************************************************)
(* Properties of the pair execute_user_transaction returns                 *)
(***************************************************************************)
UserTransactionReturned ==
    /\ pc = "returned"
    /\ txn.kind = "UserTransaction"
    /\ ret.ok

\* the failure epilogue went through and the conversion of its session into
\* an output failed
FailedOutputAfterFailureEpilogue ==
    /\ UserTransactionReturned
    /\ hist.cleanups = 1
    /\ hist.epilogue = "ok"
    /\ is_discarded(ret.val.output.status)

\* the failure epilogue itself failed
FailureEpilogueFailed ==
    /\ UserTransactionReturned
    /\ hist.cleanups = 1
    /\ hist.epilogue # "ok"

\* but for the failure cleanup that ends in a Discard, the status of the
\* output is the classification of the VMStatus returned with it
OtherwiseStatusIsTheClassification ==
    (UserTransactionReturned /\ ~FailedOutputAfterFailureEpilogue /\ ~FailureEpilogueFailed)
    => ret.val.output.status = TransactionStatus_from(ret.val.vm_status)

\* C35: the status of the output execute_user_transaction returns is the
\* classification of the VMStatus returned with it: Discard exactly when the
\* VMStatus is Discard-classified, Keep(Success) exactly when it is
\* Executed, Keep(Failure) with the recorded error otherwise, also when
\* building the output after the failure epilogue fails.
OutputStatusClassifiesVmStatus ==
    UserTransactionReturned
    => ret.val.output.status = TransactionStatus_from(ret.val.vm_status)

\* the payload aborted, the failure epilogue went through, its session
\* could not be made an output: the VMStatus is the abort, the output a
\* Discard
AbortReturnedWithDiscard ==
    /\ FailedOutputAfterFailureEpilogue
    /\ exec_result = Err("ABORTED")
    /\ ret.val.vm_status = "ABORTED"
    /\ ret.val.output.status = [class |-> "Discard",
                                code |-> "UNKNOWN_INVARIANT_VIOLATION_ERROR"]

\* the success epilogue of a user transaction ran and the call returned
\* something else than the Keep(Success) output
SuccessEpilogueFailed ==
    /\ UserTransactionReturned
    /\ StepsOf("success_epilogue") # {}
    /\ ret.val.output.status # KeepSuccess

\* C36: when the payload executes and the success epilogue (or the
\* conversion of the session) fails with a Keep-classified status, the
\* transaction goes through the failure cleanup like any payload failure:
\* the output is Keep(Failure) with the writes of the failure epilogue alone,
\* computed on the pre-transaction state, or a Discard if that epilogue
\* fails; nothing the payload or the success epilogue wrote is in it.
SuccessEpilogueFailureIsCleanedUp ==
    SuccessEpilogueFailed
    => /\ ~exec_result.ok
       /\ ~is_discarded(TransactionStatus_from(exec_result.err)) <=> hist.cleanups = 1
       /\ StepsOf("failure_epilogue") # {} <=> hist.cleanups = 1
       /\ IF ret.val.output.status.class = "Keep"
          THEN /\ hist.cleanups = 1
               /\ ret.val.vm_status = exec_result.err
               /\ ret.val.output.status = TransactionStatus_from(exec_result.err)
               /\ ret.val.output.write_set = FinishWrites(EpilogueAlone.val.writes)
               /\ ret.val.output.write_set
                     = <<W("acct", Resolver["acct"] - ret.val.output.gas_used)>>
               /\ ret.val.output.events = <<>>
          ELSE /\ ret.val.output.write_set = <<>>
               /\ ret.val.output.events = <<>>
               /\ hist.cleanups = 1 => (hist.epilogue # "ok"
                                          \/ FailedOutputAfterFailureEpilogue)

\* the payload staged a resource and an event and spent the sender's funds,
\* so the success epilogue could not debit the gas; the output is the
\* failure epilogue's debit on the pre-transaction balance
SuccessEpilogueFailureWitness ==
    /\ SuccessEpilogueFailed
    /\ {W("res", 1), W("acct", 0)} \subseteq hist.dropped
    /\ hist.dropped_events # <<>>
    /\ ret.val.output.status.class = "Keep"
    /\ ret.val.output.gas_used > 0
    /\ ret.val.output.write_set
          = <<W("acct", Resolver["acct"] - ret.val.output.gas_used)>>

(***************************************************************************)
(* Properties of simulate_signed_transaction                               *)
(***************************************************************************)
\* C13: a simulated transaction whose signature verifies is discarded with
\* INVALID_SIGNATURE and an empty write set before any session is opened:
\* the call never validates, executes or cleans up for it.
SimulationRejectsValidSignature ==
    (entry = "simulate_signed_transaction" /\ txn.sig_valid)
    => /\ pc = "returned"
       /\ ret = Ok(discard_error_vm_status("INVALID_SIGNATURE"))
       /\ ret.val.output.status = [class |-> "Discard", code |-> "INVALID_SIGNATURE"]
       /\ ret.val.output.write_set = <<>>
       /\ hist.steps = <<>>
       /\ session = NoSession
       /\ gas_meter = NoMeter

\* a validly signed transaction was given to the simulation
SimulationRejectsValidSignatureWitness ==
    /\ entry = "simulate_signed_transaction"
    /\ txn.sig_valid
    /\ txn.payload = "Script"
    /\ pc = "returned"
    /\ ret.val.vm_status = "INVALID_SIGNATURE"

(***************************************************************************)
(* Properties of the process-wide settings                                 *)
(***************************************************************************)
\* what a getter of `setting` returned last, if it was the last getter called
Got(setting) ==
    IF setting_calls.got # None /\ setting_calls.got.value.setting = setting
    THEN {setting_calls.got.value}
    ELSE {}

\* C15: under any interleaving of the setters and getters in any threads,
\* get_concurrency_level returns 1 as long as no set_concurrency_level_once
\* call has reached the cell; the first call that does sets the level to
\* min(its argument, the number of CPUs), and from then on the level is
\* that value, whatever later calls ask for.
ConcurrencyLevelSetOnce ==
    /\ [](LET args == setting_calls.concurrency_level
          IN  /\ args = <<>>
                 => /\ EXECUTION_CONCURRENCY_LEVEL = None
                    /\ get_concurrency_level = 1
              /\ args # <<>>
                 => /\ EXECUTION_CONCURRENCY_LEVEL = Some(Min(args[1], NumCpus))
                    /\ get_concurrency_level = Min(args[1], NumCpus)
              /\ \A g \in Got("concurrency_level") :
                    g.value = IF g.after = 0 THEN 1 ELSE Min(args[1], NumCpus))
    /\ [][EXECUTION_CONCURRENCY_LEVEL # None
             => UNCHANGED EXECUTION_CONCURRENCY_LEVEL]_vars

\* the first call asked for more than the CPUs, a second call for something
\* else, and a get after both returned the number of CPUs
ConcurrencyLevelSetOnceWitness ==
    /\ Len(setting_calls.concurrency_level) = 2
    /\ setting_calls.concurrency_level[1] > NumCpus
    /\ setting_calls.concurrency_level[2] < NumCpus
    /\ Got("concurrency_level") = {[setting |-> "concurrency_level", value |-> NumCpus,
                                    after |-> 2]}

\* C19: get_num_proof_reading_threads returns 32 until the first
\* set_num_proof_reading_threads_once call, then min(its argument, 256)
\* whatever later calls ask for; a call that sets one of the two settings
\* leaves the other one's cell, and what its getter returns, as they were.
ProofReadingThreadsSetOnce ==
    /\ [](LET args == setting_calls.num_proof_reading_threads
          IN  /\ args = <<>>
                 => /\ NUM_PROOF_READING_THREADS = None
                    /\ get_num_proof_reading_threads = 32
              /\ args # <<>>
                 => /\ NUM_PROOF_READING_THREADS = Some(Min(args[1], 256))
                    /\ get_num_proof_reading_threads = Min(args[1], 256)
              /\ \A g \in Got("num_proof_reading_threads") :
                    g.value = IF g.after = 0 THEN 32 ELSE Min(args[1], 256))
    /\ [][/\ NUM_PROOF_READING_THREADS # None => UNCHANGED NUM_PROOF_READING_THREADS
          /\ setting_calls.concurrency_level' # setting_calls.concurrency_level
             => /\ UNCHANGED NUM_PROOF_READING_THREADS
                /\ get_num_proof_reading_threads' = get_num_proof_reading_threads
          /\ setting_calls.num_proof_reading_threads'
                # setting_calls.num_proof_reading_threads
             => /\ UNCHANGED EXECUTION_CONCURRENCY_LEVEL
                /\ get_concurrency_level' = get_concurrency_level]_vars

\* the thread count was set above the cap, then asked to be 0, the
\* concurrency level was set in between, and a get returned the cap
ProofReadingThreadsSetOnceWitness ==
    /\ Len(setting_calls.num_proof_reading_threads) = 2
    /\ setting_calls.num_proof_reading_threads[1] > 256
    /\ setting_calls.num_proof_reading_threads[2] = 0
    /\ setting_calls.concurrency_level # <<>>
    /\ EXECUTION_CONCURRENCY_LEVEL # None
    /\ Got("num_proof_reading_threads")
          = {[setting |-> "num_proof_reading_threads", value |-> 256, after |-> 2]}

(***************************************************************************)
(* Properties of module publishing                                         *)
(***************************************************************************)
\* a bundle of two modules that deserialize, name no existing module and
\* have no faulty init_module, refused by the VM's publish_module_bundle
\* with a verification error
PublishVerificationFailed ==
    /\ pc = "returned"
    /\ txn.kind = "UserTransaction"
    /\ txn.payload = "ModuleBundle"
    /\ Len(hist.bundle) = 2
    /\ Range(hist.bundle) \subseteq {"plain", "init"}
    /\ exec_result = Err("VERIFICATION_ERROR")

\* C18 as stated: a ModuleBundle transaction with two modules, the second
\* failing verification at publish time, ends as a Discard with an empty
\* write set and a verification-error status.
PublishVerificationFailureDiscards ==
    PublishVerificationFailed
    => /\ is_discarded(ret.val.output.status)
       /\ ret.val.output.write_set = <<>>
       /\ ret.val.output.status.code = "VERIFICATION_ERROR"

\* C18, amended: that transaction goes to the failure cleanup and, the
\* failure epilogue going through, is kept with MiscellaneousError: the
\* sender pays the gas used, the write set is the failure epilogue's alone
\* and holds neither module.  It is discarded only when the cleanup itself
\* fails, and then not with the verification error.
PublishVerificationFailureIsKept ==
    PublishVerificationFailed
    => /\ hist.cleanups = 1
       /\ InitRuns = {}
       /\ ret.ok
       /\ hist.epilogue = "ok"
          => \/ ret.val.output.status.class = "Keep"
             \/ ret.val.output.status.code = "UNKNOWN_INVARIANT_VIOLATION_ERROR"
       /\ ret.val.output.status.class = "Keep"
          => /\ ret.val.vm_status = "VERIFICATION_ERROR"
             /\ ret.val.output.status = [class |-> "Keep", code |-> "MiscellaneousError"]
             /\ EpilogueAlone.ok
             /\ ret.val.output.write_set = FinishWrites(EpilogueAlone.val.writes)
             /\ WsKeys(ret.val.output.write_set) \cap BundleKeys = {}
             /\ ret.val.output.gas_used = txn.max_gas_amount - gas_meter.balance
       /\ is_discarded(ret.val.output.status)
          => /\ ret.val.output.status.code # "VERIFICATION_ERROR"
             /\ ret.val.output.write_set = <<>>

\* the bundle was refused and the transaction kept, the sender charged
PublishVerificationFailureWitness ==
    /\ PublishVerificationFailed
    /\ ret.val.output.status = [class |-> "Keep", code |-> "MiscellaneousError"]
    /\ WsKeys(ret.val.output.write_set) = {"acct"}
    /\ ret.val.output.gas_used > 0

\* the signature-checked transaction with the content of the simulated one
SignatureChecked(t) == [t EXCEPT !.kind = "UserTransaction", !.sig_valid = TRUE]

\* C14: for a transaction whose signature does not verify,
\* simulate_signed_transaction goes the way execute_user_transaction goes
\* for the signature-checked transaction of the same content.  The payload
\* executors and the two cleanups are the same functions in both; where the
\* two bodies differ in the source (validation, gas parameters and payload
\* dispatch, the match on the result) they make the same calls in the same
\* order and come to the same result, whatever the prologue, the gas
\* parameters and the payload did.
SimulationFollowsExecution ==
    (entry = "simulate_signed_transaction" /\ ~txn.sig_valid)
    => /\ SignatureChecked(txn) \in UserTxns
       /\ Resolver = state_view
       /\ pc = "validating"
          => \A o \in PrologueOutcomes :
                simulate_and_dispatch(txn, o)
                   = validate_and_dispatch(SignatureChecked(txn), o)
       /\ pc \in {"result", "failure_cleanup", "returned"} /\ exec_result # NoRet
          => simulate_match_result(exec_result) = match_result(exec_result)
       /\ pc = "returned"
          => /\ ret.ok
             /\ ret.val.output.gas_used <= txn.max_gas_amount
             /\ hist.cleanups = 1
                   <=> /\ exec_result # NoRet
                       /\ match_result(exec_result).next = "failure_cleanup"

\* a simulated module bundle went through the prologue, failed and was
\* cleaned up
SimulationFollowsExecutionWitness ==
    /\ entry = "simulate_signed_transaction"
    /\ ~txn.sig_valid
    /\ pc = "returned"
    /\ hist.cleanups = 1
    /\ txn.payload = "ModuleBundle"
    /\ StepsOf("run_module_prologue") # {}
    /\ ret.val.output.status.class = "Keep"
====
